---- MODULE Spec2Model ----
(***************************************************************************)
(* PsychoTeleBot: the session state machine (application/state_machine.py) *)
(* and the message router with the ticket assignment workflow              *)
(* (application/bot_service.py), over the in-memory role directory         *)
(* (domain/roles.py) and the session / ticket stores.                      *)
(*                                                                         *)
(* Conventions.  An Optional value is a sequence of length 0 (None) or 1.  *)
(* User ids and ticket ids are opaque in the code; here user ids are small *)
(* integers and a ticket id is the ticket's creation rank (uuid4 is        *)
(* fresh).  Dicts keep insertion order, so the directory and the ticket    *)
(* store are sequences.  A reply is a record [text, page]: text is the tag *)
(* of the fixed reply string, page what a rendered picker page shows.      *)
(***************************************************************************)
EXTENDS Integers, Sequences, FiniteSets, TLC

VARIABLES users, sessions, tickets, now, last, picked_at, inflight, start, rate_state

vars == <<users, sessions, tickets, now, last, picked_at, inflight, start, rate_state>>

----------------------------------------------------------------------------
(* Bounds of the model *)

MaxTickets == 2
MaxAiContext == 2
MaxStoredTickets == 13
MaxStaff == 12
MaxAssignments == 1
MaxExternal == 2
MaxBacklog == 3
MaxTeam == 2
MaxChatTurns == 3
MaxTime == 6
MaxFiled == 2
MaxChatEntries == 2
MaxListed == 11

----------------------------------------------------------------------------
(* Optional values *)

None == <<>>

Some(v) == <<v>>

----------------------------------------------------------------------------
(* Identities *)

AdminId == 1

UserA == 3

FirstStaffId == 100

admin_ids == {AdminId}

UserB == 4

Actors == {AdminId, UserA, UserB}

----------------------------------------------------------------------------
(* Message texts and the string conversions the handlers apply to them.     *)
(* The Cyrillic command words are written in Latin transliteration.        *)

CommandMessages == {" /MENU ", "/start", "1", "2", "3", "4"}

TextMessages == {"/clear", "", "x", "topic", "gender", "help", "30"}

PickerMessages ==
  {"/menu", "/start", "exit", "0", " 1 ", "10", "11", "Next", "dalee", "prev", "x"}

Messages == CommandMessages \cup TextMessages \cup PickerMessages

(* the texts a user is modelled to send in a given session state *)
InputsIn(state) ==
  CASE state = "CONSULT_FORM_TOPIC" -> {" /MENU ", "", "topic"}
    [] state = "CONSULT_FORM_GENDER" -> {" /MENU ", "", "gender"}
    [] state = "CONSULT_FORM_AGE" -> {" /MENU ", "/start", "30", "x"}
    [] state = "CONSULT_FORM_SEVERITY" -> {" /MENU ", "3", "x"}
    [] state = "CONSULT_FORM_MESSAGE" -> {" /MENU ", "", "help"}
    [] state = "AI_CHAT" -> {" /MENU ", "/clear", "x"}
    [] state \in {"TERMS", "PSY_QUESTION"} -> {" /MENU ", "x"}
    [] state \in {"ADMIN_ASSIGN_TICKET_SELECT", "ADMIN_ASSIGN_PSYCHO_SELECT"} ->
         PickerMessages
    [] state = "ADMIN_MANAGE_PSYCHOLOGISTS" -> {"/menu", "/start", "1", "3", "x"}
    [] OTHER -> CommandMessages

strip_lower(m) ==
  CASE m = " /MENU " -> "/menu"
    [] m = " 1 "     -> "1"
    [] m = "Next"    -> "next"
    [] m = "Srednyaya" -> "srednyaya"
    [] m = " /CLEAR " -> "/clear"
    [] m = "Konsultaciya s II" -> "konsultaciya s ii"
    [] m = "VYSOKAYA" -> "vysokaya"
    [] m = " Kriticheskaya " -> "kriticheskaya"
    [] OTHER         -> m

IntLiterals ==
  [lit \in {"0", "1", " 1 ", "2", "3", "4", "10", "11", "30", "120", "121"} |->
     CASE lit = "0"   -> 0
       [] lit = "1"   -> 1
       [] lit = " 1 " -> 1
       [] lit = "2"   -> 2
       [] lit = "3"   -> 3
       [] lit = "4"   -> 4
       [] lit = "10"  -> 10
       [] lit = "11"  -> 11
       [] lit = "30"  -> 30
       [] lit = "120" -> 120
       [] lit = "121" -> 121]

to_int(m) == IF m \in DOMAIN IntLiterals THEN Some(IntLiterals[m]) ELSE None

----------------------------------------------------------------------------
(* domain/models.py *)

ConsultationForm ==
  [topic |-> None, gender |-> None, age |-> None, severity |-> None,
   message |-> None]

truthy_str(opt) == opt # None /\ opt[1] # ""

truthy_int(opt) == opt # None /\ opt[1] # 0

is_complete(form) ==
  /\ truthy_str(form.topic)
  /\ truthy_str(form.gender)
  /\ truthy_int(form.age)
  /\ form.severity # None
  /\ truthy_str(form.message)

UserSession(user_id) ==
  [user_id |-> user_id, state |-> "MENU", consultation_form |-> ConsultationForm,
   ai_context |-> <<>>, current_ticket_id |-> None, pagination_offset |-> 0,
   selected_ticket_id |-> None]

reset_form(session) == [session EXCEPT !.consultation_form = ConsultationForm]

go_to_menu(session) == reset_form([session EXCEPT !.state = "MENU"])

Ticket(id, session, created_at) ==
  [id |-> id, user_id |-> session.user_id,
   topic |-> session.consultation_form.topic[1],
   gender |-> session.consultation_form.gender[1],
   age |-> session.consultation_form.age[1],
   severity |-> session.consultation_form.severity[1],
   message |-> session.consultation_form.message[1],
   status |-> "NEW", created_at |-> created_at, assigned_to |-> None,
   chat_history |-> <<>>]

----------------------------------------------------------------------------
(* Replies *)

NoPage == [kind |-> "none", page_num |-> 0, max_pages |-> 0, items |-> <<>>,
           prev_hint |-> FALSE]

Reply(text) == [text |-> text, page |-> NoPage]

(* an exception that leaves the call in place of a reply *)
Raise(exception) == [text |-> exception, page |-> [NoPage EXCEPT !.kind = "exception"]]

raised(response) == response.page.kind = "exception"

Result(session, response) == [session |-> session, response |-> response]

----------------------------------------------------------------------------
(* application/state_machine.py *)

(* what a call of generate_ai_reply can do: return the model's reply,       *)
(* return one of its fixed texts for a timeout, a rate limit or a failed    *)
(* request, or raise (AIService() is constructed outside its try block)     *)
AiOutcomes == {"reply", "timeout", "rate_limited", "service_error", "exception"}

(* the string generate_ai_reply returns *)
generate_ai_reply(ai) ==
  CASE ai = "reply"         -> "AI_REPLY"
    [] ai = "timeout"       -> "TIMEOUT_RESPONSE"
    [] ai = "rate_limited"  -> "RATE_LIMIT_MESSAGE"
    [] ai = "service_error" -> "FALLBACK_RESPONSE"

(* variant: options 3 and 4 lead to each other's screens *)
_handle_menu_3_and_4_swapped(session, message) ==
  LET message_lower == strip_lower(message) IN
  CASE message_lower \in {"1", "konsultaciya so specialistom"} ->
         Result([session EXCEPT !.state = "CONSULT_FORM_TOPIC"], Reply("ASK_TOPIC"))
    [] message_lower \in {"2", "konsultaciya s ii"} ->
         Result([session EXCEPT !.state = "AI_CHAT"], Reply("AI_CHAT_TEXT"))
    [] message_lower \in {"4", "usloviya obrashcheniya"} ->
         Result([session EXCEPT !.state = "TERMS"], Reply("TERMS_TEXT"))
    [] message_lower \in {"3", "vopros po psihologii"} ->
         Result([session EXCEPT !.state = "PSY_QUESTION"], Reply("PSY_QUESTION_TEXT"))
    [] OTHER -> Result(session, Reply("MENU_TEXT"))

_handle_menu(session, message) ==
  LET message_lower == strip_lower(message) IN
  CASE message_lower \in {"1", "konsultaciya so specialistom"} ->
         Result([session EXCEPT !.state = "CONSULT_FORM_TOPIC"], Reply("ASK_TOPIC"))
    [] message_lower \in {"2", "konsultaciya s ii"} ->
         Result([session EXCEPT !.state = "AI_CHAT"], Reply("AI_CHAT_TEXT"))
    [] message_lower \in {"3", "usloviya obrashcheniya"} ->
         Result([session EXCEPT !.state = "TERMS"], Reply("TERMS_TEXT"))
    [] message_lower \in {"4", "vopros po psihologii"} ->
         Result([session EXCEPT !.state = "PSY_QUESTION"], Reply("PSY_QUESTION_TEXT"))
    [] OTHER -> Result(session, Reply("MENU_TEXT"))

_handle_topic(session, message) ==
  Result([session EXCEPT !.consultation_form.topic = Some(message),
                         !.state = "CONSULT_FORM_GENDER"],
         Reply("ASK_GENDER"))

(* variant: the answer to the gender step lands in the topic field *)
_handle_gender_into_topic(session, message) ==
  Result([session EXCEPT !.consultation_form.topic = Some(message),
                         !.state = "CONSULT_FORM_AGE"],
         Reply("ASK_AGE"))

_handle_gender(session, message) ==
  Result([session EXCEPT !.consultation_form.gender = Some(message),
                         !.state = "CONSULT_FORM_AGE"],
         Reply("ASK_AGE"))

(* variant: the lower limit is 0 and the upper limit 121 *)
_handle_age_wider_range(session, message) ==
  LET age == to_int(message) IN
  IF age = None THEN Result(session, Reply("AGE_NOT_A_NUMBER"))
  ELSE IF age[1] < 0 \/ age[1] > 121 THEN Result(session, Reply("AGE_OUT_OF_RANGE"))
  ELSE Result([session EXCEPT !.consultation_form.age = age,
                              !.state = "CONSULT_FORM_SEVERITY"],
              Reply("ASK_SEVERITY"))

_handle_age(session, message) ==
  LET age == to_int(message) IN
  IF age = None THEN Result(session, Reply("AGE_NOT_A_NUMBER"))
  ELSE IF age[1] < 1 \/ age[1] > 120 THEN Result(session, Reply("AGE_OUT_OF_RANGE"))
  ELSE Result([session EXCEPT !.consultation_form.age = age,
                              !.state = "CONSULT_FORM_SEVERITY"],
              Reply("ASK_SEVERITY"))

(* variant: the level names are matched as typed, only in lower case, and   *)
(* 3 and 4 are swapped                                                      *)
severity_map_swapped(key) ==
  CASE key \in {"1", "nizkaya"}     -> Some("LOW")
    [] key \in {"2", "srednyaya"}   -> Some("MEDIUM")
    [] key \in {"4", "vysokaya"}    -> Some("HIGH")
    [] key \in {"3", "kriticheskaya"} -> Some("CRITICAL")
    [] OTHER -> None

severity_map(key) ==
  CASE key \in {"1", "nizkaya"}     -> Some("LOW")
    [] key \in {"2", "srednyaya"}   -> Some("MEDIUM")
    [] key \in {"3", "vysokaya"}    -> Some("HIGH")
    [] key \in {"4", "kriticheskaya"} -> Some("CRITICAL")
    [] OTHER -> None

_handle_severity(session, message) ==
  LET severity == severity_map(strip_lower(message)) IN
  IF severity # None
  THEN Result([session EXCEPT !.consultation_form.severity = severity,
                              !.state = "CONSULT_FORM_MESSAGE"],
              Reply("ASK_MESSAGE"))
  ELSE Result(session, Reply("SEVERITY_INVALID"))

_handle_message(session, message) ==
  Result([session EXCEPT !.consultation_form.message = Some(message),
                         !.state = "MENU"],
         Reply("TICKET_CREATED_AND_MENU_TEXT"))

(* application/ai_service.py: the per-user rate limiter of generate_ai_reply *)

MIN_INTERVAL_SECONDS == 4

MAX_PER_MINUTE == 12

RateState == [last_request_at |-> 0, window |-> <<>>]

(* lines 460-471 at clock reading t: the request is refused, or it is       *)
(* admitted and recorded                                                    *)
rate_limit(rate, t) ==
  LET window == SelectSeq(rate.window, LAMBDA at : t - at <= 60) IN
  IF rate.last_request_at # 0 /\ t - rate.last_request_at < MIN_INTERVAL_SECONDS
  THEN [limited |-> TRUE, rate |-> rate]
  ELSE IF Len(window) >= MAX_PER_MINUTE
  THEN [limited |-> TRUE, rate |-> [rate EXCEPT !.window = window]]
  ELSE [limited |-> FALSE,
        rate |-> [last_request_at |-> t, window |-> Append(window, t)]]

Turn(role, content) == [role |-> role, content |-> content]

(* variant: the truncation keeps the last 19 entries *)
Last20_keeping_19(ctx) ==
  IF Len(ctx) > 20 THEN SubSeq(ctx, Len(ctx) - 18, Len(ctx)) ELSE ctx

Last20(ctx) ==
  IF Len(ctx) > 20 THEN SubSeq(ctx, Len(ctx) - 19, Len(ctx)) ELSE ctx

(* variant: when the call raises, the fallback is returned but not stored *)
_handle_ai_chat_fallback_not_stored(session, message, ai) ==
  LET with_user == Append(session.ai_context, Turn("user", message)) IN
  IF ai # "exception"
  THEN Result([session EXCEPT !.ai_context =
                 Last20(Append(with_user, Turn("assistant", generate_ai_reply(ai))))],
              Reply(generate_ai_reply(ai)))
  ELSE Result([session EXCEPT !.ai_context = with_user], Reply("FALLBACK"))

_handle_ai_chat(session, message, ai) ==
  LET with_user == Append(session.ai_context, Turn("user", message)) IN
  IF ai # "exception"
  THEN Result([session EXCEPT !.ai_context =
                 Last20(Append(with_user, Turn("assistant", generate_ai_reply(ai))))],
              Reply(generate_ai_reply(ai)))
  ELSE Result([session EXCEPT !.ai_context =
                 Append(with_user, Turn("assistant", "FALLBACK"))],
              Reply("FALLBACK"))

(* variant: leaving the terms screen also empties the AI context *)
_handle_terms_clearing_context(session, message) ==
  Result([session EXCEPT !.state = "MENU", !.ai_context = <<>>], Reply("MENU_TEXT"))

_handle_terms(session, message) ==
  Result([session EXCEPT !.state = "MENU"], Reply("MENU_TEXT"))

_handle_psy_question(session, message) ==
  Result([session EXCEPT !.state = "MENU"], Reply("QUESTION_ACK_AND_MENU_TEXT"))

process(session, message, ai) ==
  LET cmd == strip_lower(message) IN
  IF cmd \in {"/menu", "menu"}
  THEN Result(go_to_menu(session), Reply("MENU_TEXT"))
  ELSE IF cmd \in {"/clear", "clear"} /\ session.state = "AI_CHAT"
  THEN Result([session EXCEPT !.ai_context = <<>>], Reply("CONTEXT_CLEARED"))
  ELSE IF cmd \in {"/start", "start"} /\ session.state = "MENU"
  THEN Result(session, Reply("WELCOME_AND_MENU_TEXT"))
  ELSE CASE session.state = "MENU" -> _handle_menu(session, message)
         [] session.state = "CONSULT_FORM_TOPIC" -> _handle_topic(session, message)
         [] session.state = "CONSULT_FORM_GENDER" -> _handle_gender(session, message)
         [] session.state = "CONSULT_FORM_AGE" -> _handle_age(session, message)
         [] session.state = "CONSULT_FORM_SEVERITY" -> _handle_severity(session, message)
         [] session.state = "CONSULT_FORM_MESSAGE" -> _handle_message(session, message)
         [] session.state = "AI_CHAT" -> _handle_ai_chat(session, message, ai)
         [] session.state = "TERMS" -> _handle_terms(session, message)
         [] session.state = "PSY_QUESTION" -> _handle_psy_question(session, message)
         [] OTHER -> Result(session, Reply("UNKNOWN_COMMAND_USE_MENU"))

----------------------------------------------------------------------------
(* domain/roles.py: the directory is the sequence of profiles in insertion  *)
(* order                                                                    *)

UserProfile(user_id, role) ==
  [user_id |-> user_id, role |-> role, username |-> None, first_name |-> None,
   last_name |-> None]

has_profile(U, user_id) == \E i \in 1..Len(U) : U[i].user_id = user_id

get_user(U, user_id) ==
  IF has_profile(U, user_id)
  THEN Some(U[CHOOSE i \in 1..Len(U) : U[i].user_id = user_id])
  ELSE None

get_role(U, user_id) ==
  IF has_profile(U, user_id) THEN get_user(U, user_id)[1].role ELSE "user"

NewProfile(user_id, username, first_name, last_name) ==
  [UserProfile(user_id, IF user_id \in admin_ids THEN "admin" ELSE "user")
     EXCEPT !.username = username, !.first_name = first_name,
            !.last_name = last_name]

(* variant: an existing profile takes the metadata of the latest call *)
get_or_create_user_last_write_wins(U, user_id, username, first_name, last_name) ==
  IF ~has_profile(U, user_id)
  THEN Append(U, NewProfile(user_id, username, first_name, last_name))
  ELSE [i \in 1..Len(U) |->
          IF U[i].user_id = user_id
          THEN [U[i] EXCEPT !.username = username, !.first_name = first_name,
                            !.last_name = last_name]
          ELSE U[i]]

(* the directory after the call; the call returns the profile stored in it *)
get_or_create_user(U, user_id, username, first_name, last_name) ==
  IF ~has_profile(U, user_id)
  THEN Append(U, NewProfile(user_id, username, first_name, last_name))
  ELSE U

set_role(U, user_id, role) ==
  [i \in 1..Len(U) |->
     IF U[i].user_id = user_id THEN [U[i] EXCEPT !.role = role] ELSE U[i]]

(* variant: only a psychologist is refused *)
promote_to_psychologist_admin_too(U, user_id) ==
  IF ~has_profile(U, user_id) THEN [ok |-> FALSE, users |-> U]
  ELSE IF get_role(U, user_id) = "psychologist"
  THEN [ok |-> FALSE, users |-> U]
  ELSE [ok |-> TRUE, users |-> set_role(U, user_id, "psychologist")]

promote_to_psychologist(U, user_id) ==
  IF ~has_profile(U, user_id) THEN [ok |-> FALSE, users |-> U]
  ELSE IF get_role(U, user_id) \in {"admin", "psychologist"}
  THEN [ok |-> FALSE, users |-> U]
  ELSE [ok |-> TRUE, users |-> set_role(U, user_id, "psychologist")]

demote_psychologist(U, user_id) ==
  IF ~has_profile(U, user_id) THEN [ok |-> FALSE, users |-> U]
  ELSE IF get_role(U, user_id) # "psychologist"
  THEN [ok |-> FALSE, users |-> U]
  ELSE [ok |-> TRUE, users |-> set_role(U, user_id, "user")]

is_psychologist(U, user_id) == get_role(U, user_id) = "psychologist"

(* variant: the stored role alone decides *)
is_admin_by_stored_role(U, user_id) == get_role(U, user_id) = "admin"

is_admin(U, user_id) ==
  IF user_id \in admin_ids THEN TRUE ELSE get_role(U, user_id) = "admin"

list_psychologists(U) == SelectSeq(U, LAMBDA p : p.role = "psychologist")

(* RoleManager defines no find_user: the attribute lookup raises *)
find_user(U, identifier) == [raised |-> "AttributeError", value |-> None]

----------------------------------------------------------------------------
(* Ticket store (infrastructure/in_memory_repositories.py) *)

ticket_get(T, ticket_id) ==
  IF \E i \in 1..Len(T) : T[i].id = ticket_id
  THEN Some(T[CHOOSE i \in 1..Len(T) : T[i].id = ticket_id])
  ELSE None

ticket_update(T, ticket) ==
  [i \in 1..Len(T) |-> IF T[i].id = ticket.id THEN ticket ELSE T[i]]

(* InMemoryTicketRepository.get_all lists the tickets in insertion order *)
get_all_in_memory(T) == T

(* SQLiteTicketRepository.get_all lists them ORDER BY created_at DESC; T is *)
(* in creation order, so the reversed sequence is such a listing            *)
get_all_sqlite(T) == [i \in 1..Len(T) |-> T[Len(T) + 1 - i]]

----------------------------------------------------------------------------
(* application/bot_service.py: queries of the assignment engine *)

PageSize == 10

(* variant: the assignment leaves the status as it was *)
assign_ticket_keeps_status(T, ticket_id, specialist_id) ==
  LET ticket == ticket_get(T, ticket_id) IN
  IF ticket # None
  THEN [ok |-> TRUE,
        tickets |-> ticket_update(T, [ticket[1] EXCEPT
                                        !.assigned_to = Some(specialist_id)])]
  ELSE [ok |-> FALSE, tickets |-> T]

update_ticket_status(T, ticket_id, status) ==
  LET ticket == ticket_get(T, ticket_id) IN
  IF ticket # None
  THEN [ok |-> TRUE, tickets |-> ticket_update(T, [ticket[1] EXCEPT !.status = status])]
  ELSE [ok |-> FALSE, tickets |-> T]

assign_ticket(T, ticket_id, specialist_id) ==
  LET ticket == ticket_get(T, ticket_id) IN
  IF ticket # None
  THEN [ok |-> TRUE,
        tickets |-> ticket_update(T, [ticket[1] EXCEPT
                                        !.assigned_to = Some(specialist_id),
                                        !.status = "IN_PROGRESS"])]
  ELSE [ok |-> FALSE, tickets |-> T]

ChatEntry(timestamp, user_id, message) ==
  [timestamp |-> timestamp, user_id |-> user_id, message |-> message]

(* variant: the history keeps the latest entry only *)
add_message_to_ticket_latest_only(T, ticket_id, user_id, message, clock) ==
  LET ticket == ticket_get(T, ticket_id) IN
  IF ticket # None
  THEN [ok |-> TRUE,
        tickets |-> ticket_update(T, [ticket[1] EXCEPT !.chat_history =
                      <<ChatEntry(clock, user_id, message)>>])]
  ELSE [ok |-> FALSE, tickets |-> T]

add_message_to_ticket(T, ticket_id, user_id, message, clock) ==
  LET ticket == ticket_get(T, ticket_id) IN
  IF ticket # None
  THEN [ok |-> TRUE,
        tickets |-> ticket_update(T, [ticket[1] EXCEPT !.chat_history =
                      Append(@, ChatEntry(clock, user_id, message))])]
  ELSE [ok |-> FALSE, tickets |-> T]

severity_order(severity) ==
  CASE severity = "CRITICAL" -> 0
    [] severity = "HIGH"     -> 1
    [] severity = "MEDIUM"   -> 2
    [] severity = "LOW"      -> 3
    [] OTHER                 -> 999

(* sort keys are tuples compared lexicographically *)
key_less(a, b) == a[1] < b[1] \/ (a[1] = b[1] /\ a[2] < b[2])

RECURSIVE insert_by_key(_, _, _)
insert_by_key(order, keys, i) ==
  IF order = <<>> THEN <<i>>
  ELSE IF key_less(keys[i], keys[order[Len(order)]])
  THEN Append(insert_by_key(SubSeq(order, 1, Len(order) - 1), keys, i),
              order[Len(order)])
  ELSE Append(order, i)

RECURSIVE sorted_order(_, _)
sorted_order(keys, n) ==
  IF n = 0 THEN <<>> ELSE insert_by_key(sorted_order(keys, n - 1), keys, n)

(* list.sort(key=...) is stable: elements with equal keys keep their order *)
sort_by_key(seq, keys) ==
  LET order == sorted_order(keys, Len(seq)) IN [p \in 1..Len(seq) |-> seq[order[p]]]

backlog(T) == SelectSeq(T, LAMBDA t : t.status \in {"NEW", "WAITING_RESPONSE"})

(* variant: the creation time is left out of the sort key *)
ticket_keys_severity_only(seq) ==
  [i \in 1..Len(seq) |-> <<severity_order(seq[i].severity), 0>>]

ticket_keys(seq) ==
  [i \in 1..Len(seq) |-> <<severity_order(seq[i].severity), seq[i].created_at>>]

get_sorted_tickets_for_assignment(T) == sort_by_key(backlog(T), ticket_keys(backlog(T)))

active_statuses == {"NEW", "IN_PROGRESS", "WAITING_RESPONSE"}

(* variant: closed tickets count as load *)
workload_counting_closed(T, user_id) ==
  Len(SelectSeq(T, LAMBDA t : t.assigned_to = Some(user_id)))

workload(T, user_id) ==
  Len(SelectSeq(T, LAMBDA t : t.assigned_to = Some(user_id)
                              /\ t.status \in active_statuses))

workload_keys(seq, T) == [i \in 1..Len(seq) |-> <<workload(T, seq[i].user_id), 0>>]

get_psychologists_by_workload(U, T) ==
  sort_by_key(list_psychologists(U), workload_keys(list_psychologists(U), T))

(* seq[offset:offset+10] *)
page_slice(seq, offset) ==
  LET hi == IF offset + PageSize < Len(seq) THEN offset + PageSize ELSE Len(seq)
  IN IF offset >= Len(seq) THEN <<>> ELSE SubSeq(seq, offset + 1, hi)

_render_tickets_page(sorted, offset) ==
  LET page_tickets == page_slice(sorted, offset) IN
  [text |-> "TICKETS_PAGE",
   page |-> [kind |-> "tickets",
             page_num |-> (offset \div PageSize) + 1,
             max_pages |-> (Len(sorted) + 9) \div PageSize,
             items |-> [i \in 1..Len(page_tickets) |-> page_tickets[i].id],
             prev_hint |-> offset > 0]]

_render_psychologists_page(ticket, psychologists, offset) ==
  LET page_psychologists == page_slice(psychologists, offset) IN
  [text |-> "PSYCHOLOGISTS_PAGE",
   page |-> [kind |-> "psychologists",
             page_num |-> (offset \div PageSize) + 1,
             max_pages |-> (Len(psychologists) + 9) \div PageSize,
             items |-> [i \in 1..Len(page_psychologists) |->
                          page_psychologists[i].user_id],
             prev_hint |-> offset > 0]]

----------------------------------------------------------------------------
(* application/bot_service.py: role handlers.  A handler returns the        *)
(* session, the reply, and the directory and ticket store as it left them.  *)

HResult(session, response, U, T) ==
  [session |-> session, response |-> response, users |-> U, tickets |-> T]

NextWords == {"next", "dalee", "sleduyushchie"}

PrevWords == {"prev", "nazad", "predydushchie"}

ExitWords == {"exit", "otmena", "0"}

StartWords == {"/start", "start"}

max0(n) == IF n > 0 THEN n ELSE 0

(* variant: past the end, the offset snaps to the last ten items *)
next_offset_last_ten(offset, total) ==
  IF offset + PageSize >= total THEN max0(total - PageSize) ELSE offset + PageSize

(* offset += 10; if offset >= len(items): offset -= 10 *)
next_offset(offset, total) ==
  IF offset + PageSize >= total THEN offset ELSE offset + PageSize

(* variant: steps back by one item instead of one page *)
prev_offset_one_item(offset) == max0(offset - 1)

(* max(0, offset - 10) *)
prev_offset(offset) == max0(offset - PageSize)

(* variant: the upper bound is off by one *)
is_page_numeral_up_to_11(num) == num # None /\ 1 <= num[1] /\ num[1] <= 11

(* int(message.strip()) succeeded and 1 <= num <= 10 *)
is_page_numeral(num) == num # None /\ 1 <= num[1] /\ num[1] <= 10

(* variant: the numeral is taken as an index into the whole list *)
picked_index_ignoring_offset(offset, num) == num - 1

(* idx = session.pagination_offset + num - 1 *)
picked_index(offset, num) == offset + num - 1

admin_menu_choice(session, message_lower, U, T) ==
  CASE message_lower \in {"1", "upravlenie psihologami"} ->
         HResult([session EXCEPT !.state = "ADMIN_MANAGE_PSYCHOLOGISTS"],
                 IF list_psychologists(U) = <<>>
                 THEN Reply("NO_PSYCHOLOGISTS_SEND_ID")
                 ELSE Reply("CURRENT_PSYCHOLOGISTS_SEND_ID"), U, T)
    [] message_lower \in {"2", "vse zayavki"} ->
         HResult(session,
                 IF T = <<>> THEN Reply("NO_TICKETS") ELSE Reply("ALL_TICKETS"),
                 U, T)
    [] message_lower \in {"3", "naznachit na zayavku"} ->
         LET sorted == get_sorted_tickets_for_assignment(T) IN
         IF sorted = <<>> THEN HResult(session, Reply("NO_TICKETS_TO_ASSIGN"), U, T)
         ELSE IF list_psychologists(U) = <<>>
         THEN HResult(session, Reply("NO_PSYCHOLOGISTS_ASSIGNED"), U, T)
         ELSE HResult([session EXCEPT !.state = "ADMIN_ASSIGN_TICKET_SELECT",
                                      !.pagination_offset = 0],
                      _render_tickets_page(sorted, 0), U, T)
    [] message_lower \in {"4", "obychnoe menyu"} ->
         HResult([session EXCEPT !.state = "MENU"],
                 Reply("SWITCHED_TO_ORDINARY_MENU"), U, T)
    [] OTHER -> HResult(session, Reply("UNKNOWN_COMMAND"), U, T)

admin_manage_psychologists(session, message, U, T) ==
  LET lookup == find_user(U, message)
      user_profile == lookup.value
      back == [session EXCEPT !.state = "ADMIN_MENU"]
  IN IF lookup.raised # "" THEN HResult(session, Raise(lookup.raised), U, T)
     ELSE IF user_profile = None THEN HResult(back, Reply("USER_NOT_FOUND"), U, T)
     ELSE LET user_id_to_promote == user_profile[1].user_id IN
          IF is_admin(U, user_id_to_promote)
          THEN HResult(back, Reply("USER_IS_ADMIN"), U, T)
          ELSE IF is_psychologist(U, user_id_to_promote)
          THEN HResult(back, Reply("ALREADY_PSYCHOLOGIST"), U, T)
          ELSE LET promoted == promote_to_psychologist(U, user_id_to_promote) IN
               HResult(back,
                       IF promoted.ok THEN Reply("PROMOTED")
                       ELSE Reply("PROMOTE_FAILED"),
                       promoted.users, T)

admin_assign_ticket_select(session, message, U, T) ==
  LET message_lower == strip_lower(message)
      sorted == get_sorted_tickets_for_assignment(T)
      offset == session.pagination_offset
      ticket_num == to_int(message)
  IN
  IF message_lower \in ExitWords
  THEN HResult([session EXCEPT !.state = "ADMIN_MENU"], Reply("CANCELLED"), U, T)
  ELSE IF message_lower \in NextWords
  THEN IF next_offset(offset, Len(sorted)) = offset
       THEN HResult(session, Reply("LAST_PAGE"), U, T)
       ELSE HResult([session EXCEPT
                       !.pagination_offset = next_offset(offset, Len(sorted))],
                    _render_tickets_page(sorted, next_offset(offset, Len(sorted))),
                    U, T)
  ELSE IF message_lower \in PrevWords
  THEN HResult([session EXCEPT !.pagination_offset = prev_offset(offset)],
               _render_tickets_page(sorted, prev_offset(offset)), U, T)
  ELSE IF is_page_numeral(ticket_num)
  THEN LET idx == picked_index(offset, ticket_num[1]) IN
       IF idx < Len(sorted)
       THEN HResult([session EXCEPT
                       !.selected_ticket_id = Some(sorted[idx + 1].id),
                       !.state = "ADMIN_ASSIGN_PSYCHO_SELECT",
                       !.pagination_offset = 0],
                    _render_psychologists_page(sorted[idx + 1],
                       get_psychologists_by_workload(U, T), 0), U, T)
       ELSE HResult(session, Reply("TICKET_NOT_FOUND"), U, T)
  ELSE HResult(session, Reply("INVALID_INPUT_TICKET_USAGE"), U, T)

admin_assign_psycho_select(session, message, U, T) ==
  LET message_lower == strip_lower(message)
      psychologists == get_psychologists_by_workload(U, T)
      offset == session.pagination_offset
      psy_num == to_int(message)
  IN
  IF session.selected_ticket_id = None
  THEN HResult([session EXCEPT !.state = "ADMIN_MENU"],
               Reply("ERROR_NO_TICKET_SELECTED"), U, T)
  ELSE IF message_lower \in ExitWords
  THEN HResult([session EXCEPT !.state = "ADMIN_ASSIGN_TICKET_SELECT",
                               !.selected_ticket_id = None],
               _render_tickets_page(get_sorted_tickets_for_assignment(T), offset),
               U, T)
  ELSE IF message_lower \in NextWords
  THEN IF next_offset(offset, Len(psychologists)) = offset
       THEN HResult(session, Reply("LAST_PAGE"), U, T)
       ELSE HResult([session EXCEPT
                       !.pagination_offset = next_offset(offset, Len(psychologists))],
                    _render_psychologists_page(
                       ticket_get(T, session.selected_ticket_id[1]),
                       psychologists, next_offset(offset, Len(psychologists))),
                    U, T)
  ELSE IF message_lower \in PrevWords
  THEN HResult([session EXCEPT !.pagination_offset = prev_offset(offset)],
               _render_psychologists_page(
                  ticket_get(T, session.selected_ticket_id[1]),
                  psychologists, prev_offset(offset)), U, T)
  ELSE IF is_page_numeral(psy_num)
  THEN LET idx == picked_index(offset, psy_num[1]) IN
       IF idx < Len(psychologists)
       THEN LET assigned == assign_ticket(T, session.selected_ticket_id[1],
                                          psychologists[idx + 1].user_id)
            IN HResult([session EXCEPT !.state = "ADMIN_MENU",
                                       !.selected_ticket_id = None,
                                       !.pagination_offset = 0],
                       IF assigned.ok THEN Reply("TICKET_ASSIGNED")
                       ELSE Reply("ASSIGN_ERROR"),
                       U, assigned.tickets)
       ELSE HResult(session, Reply("PSYCHOLOGIST_NOT_FOUND"), U, T)
  ELSE HResult(session, Reply("INVALID_INPUT_PSYCHOLOGIST_USAGE"), U, T)

(* variant: an admin in MENU is served by the state machine of ordinary     *)
(* users unless the message is a start word                                 *)
_handle_admin_message_menu_as_user(session, message, user_id, U, T) ==
  LET message_lower == strip_lower(message) IN
  IF message_lower \in StartWords
  THEN HResult([session EXCEPT !.state = "ADMIN_MENU"], Reply("ADMIN_PANEL"), U, T)
  ELSE CASE session.state = "MENU" ->
              HResult(process(session, message, "reply").session,
                      process(session, message, "reply").response, U, T)
         [] session.state = "ADMIN_MENU" ->
              admin_menu_choice(session, message_lower, U, T)
         [] session.state = "ADMIN_MANAGE_PSYCHOLOGISTS" ->
              admin_manage_psychologists(session, message, U, T)
         [] session.state = "ADMIN_ASSIGN_TICKET_SELECT" ->
              admin_assign_ticket_select(session, message, U, T)
         [] session.state = "ADMIN_ASSIGN_PSYCHO_SELECT" ->
              admin_assign_psycho_select(session, message, U, T)
         [] OTHER -> HResult(session, Reply("UNKNOWN_COMMAND"), U, T)

_handle_admin_message(session, message, user_id, U, T) ==
  LET message_lower == strip_lower(message) IN
  IF session.state = "MENU" \/ message_lower \in StartWords
  THEN HResult([session EXCEPT !.state = "ADMIN_MENU"], Reply("ADMIN_PANEL"), U, T)
  ELSE CASE session.state = "ADMIN_MENU" ->
              admin_menu_choice(session, message_lower, U, T)
         [] session.state = "ADMIN_MANAGE_PSYCHOLOGISTS" ->
              admin_manage_psychologists(session, message, U, T)
         [] session.state = "ADMIN_ASSIGN_TICKET_SELECT" ->
              admin_assign_ticket_select(session, message, U, T)
         [] session.state = "ADMIN_ASSIGN_PSYCHO_SELECT" ->
              admin_assign_psycho_select(session, message, U, T)
         [] OTHER -> HResult(session, Reply("UNKNOWN_COMMAND"), U, T)

_handle_psychologist_message(session, message, user_id, U, T, ai) ==
  LET message_lower == strip_lower(message)
      ordinary == process(session, message, ai)
  IN
  IF session.state = "MENU" \/ message_lower \in StartWords
  THEN HResult([session EXCEPT !.state = "PSY_MENU"], Reply("PSYCHOLOGIST_PANEL"), U, T)
  ELSE IF session.state = "PSY_MENU" /\ message_lower \in {"1", "ochered zayavok"}
  THEN IF SelectSeq(T, LAMBDA t : t.status \in {"NEW", "WAITING_RESPONSE"}) = <<>>
       THEN HResult([session EXCEPT !.state = "PSY_MENU"], Reply("QUEUE_EMPTY"), U, T)
       ELSE HResult([session EXCEPT !.state = "PSY_TICKETS_LIST"],
                    Reply("QUEUE_LIST"), U, T)
  ELSE IF session.state = "PSY_MENU" /\ message_lower \in {"2", "moi zayavki"}
  THEN HResult(session,
               IF SelectSeq(T, LAMBDA t : t.assigned_to = Some(user_id)) = <<>>
               THEN Reply("NO_TICKETS_TAKEN") ELSE Reply("MY_TICKETS"), U, T)
  ELSE IF session.state = "PSY_MENU" /\ message_lower \in {"3", "obychnoe menyu"}
  THEN HResult([session EXCEPT !.state = "MENU"],
               Reply("SWITCHED_TO_ORDINARY_MENU"), U, T)
  ELSE HResult(ordinary.session, ordinary.response, U, T)

----------------------------------------------------------------------------
(* application/bot_service.py: process_message.  The stores are passed as   *)
(* a record W = [users, sessions, tickets, now].                            *)

World(U, S, T, clock) == [users |-> U, sessions |-> S, tickets |-> T, now |-> clock]

(* variant: the ticket takes its topic from the gender field *)
_create_ticket_from_form_swapped(T, session, clock) ==
  Append(T, [Ticket(Len(T) + 1, session, clock) EXCEPT
               !.topic = session.consultation_form.gender[1]])

_create_ticket_from_form(T, session, clock) ==
  Append(T, Ticket(Len(T) + 1, session, clock))

(* lines 62-71: the handler is chosen by the sender's role *)
dispatch(W, session, user_id, message, ai) ==
  IF is_admin(W.users, user_id)
  THEN _handle_admin_message(session, message, user_id, W.users, W.tickets)
  ELSE IF is_psychologist(W.users, user_id)
  THEN _handle_psychologist_message(session, message, user_id,
                                    W.users, W.tickets, ai)
  ELSE LET r == process(session, message, ai)
       IN HResult(r.session, r.response, W.users, W.tickets)

(* lines 59-85: everything after the session has been loaded.  An exception *)
(* raised by a handler leaves the method before lines 73-83: no ticket is   *)
(* created and the session is not saved.                                    *)
process_loaded(W, session, user_id, message, ai) ==
  LET previous_state == session.state
      h == dispatch(W, session, user_id, message, ai)
      completed == /\ previous_state = "CONSULT_FORM_MESSAGE"
                   /\ h.session.state = "MENU"
                   /\ is_complete(h.session.consultation_form)
      T2 == IF completed THEN _create_ticket_from_form(h.tickets, h.session, W.now)
            ELSE h.tickets
      saved == IF completed
               THEN reset_form([h.session EXCEPT
                                  !.current_ticket_id = Some(T2[Len(T2)].id)])
               ELSE h.session
  IN IF raised(h.response)
     THEN [users |-> h.users, sessions |-> W.sessions, tickets |-> h.tickets,
           now |-> W.now, response |-> h.response]
     ELSE [users |-> h.users,
           sessions |-> [W.sessions EXCEPT ![user_id] = Some(saved)],
           tickets |-> T2,
           now |-> IF completed THEN W.now + 1 ELSE W.now,
           response |-> h.response]

(* lines 44-57: profile and session are fetched or created *)
load_session(W, user_id) ==
  IF W.sessions[user_id] = None THEN UserSession(user_id) ELSE W.sessions[user_id][1]

(* variant: every key of the session store holds the sender's session *)
process_message_one_shared_session(W, user_id, message, ai) ==
  LET session == load_session(W, user_id)
      W1 == [W EXCEPT !.users = get_or_create_user(W.users, user_id, None, None, None),
                      !.sessions[user_id] = Some(session)]
      r == process_loaded(W1, session, user_id, message, ai)
  IN [r EXCEPT !.sessions = [u \in DOMAIN r.sessions |-> r.sessions[user_id]]]

process_message(W, user_id, message, ai) ==
  LET session == load_session(W, user_id)
      W1 == [W EXCEPT !.users = get_or_create_user(W.users, user_id, None, None, None),
                      !.sessions[user_id] = Some(session)]
  IN process_loaded(W1, session, user_id, message, ai)

(* process_message over InMemorySessionRepository when ticket_repo.create   *)
(* raises at line 78.  The repository's get returns the stored object       *)
(* itself, so what the handler did to the session is in the store already;  *)
(* lines 79-83 are not reached.                                             *)
process_message_create_fails(W, user_id, message, ai) ==
  LET session == load_session(W, user_id)
      W1 == [W EXCEPT !.users = get_or_create_user(W.users, user_id, None, None, None),
                      !.sessions[user_id] = Some(session)]
      h == dispatch(W1, session, user_id, message, ai)
      completed == /\ session.state = "CONSULT_FORM_MESSAGE"
                   /\ h.session.state = "MENU"
                   /\ is_complete(h.session.consultation_form)
  IN IF completed /\ ~raised(h.response)
     THEN [users |-> h.users,
           sessions |-> [W1.sessions EXCEPT ![user_id] = Some(h.session)],
           tickets |-> h.tickets, now |-> W1.now, response |-> Raise("StoreError")]
     ELSE process_loaded(W1, session, user_id, message, ai)

----------------------------------------------------------------------------
(* The state machine of the whole service *)

world == World(users, sessions, tickets, now)

NoCall == [user_id |-> 0, message |-> "", ai |-> "reply", response |-> Reply("NONE")]

(* the last call: sender, text, what the AI collaborator did, and the reply *)
NoRateState == [u \in Actors |-> RateState]

Call(user_id, message, ai, response) ==
  [user_id |-> user_id, message |-> message, ai |-> ai, response |-> response]

state_of(S, user_id) == IF S[user_id] = None THEN "MENU" ELSE S[user_id][1].state

offset_of(S, user_id) ==
  IF S[user_id] = None THEN 0 ELSE S[user_id][1].pagination_offset

(* history: the ticket-picker offset an admin held when a ticket was chosen *)
picked_after(S, S2, user_id) ==
  IF /\ state_of(S, user_id) = "ADMIN_ASSIGN_TICKET_SELECT"
     /\ state_of(S2, user_id) = "ADMIN_ASSIGN_PSYCHO_SELECT"
  THEN [picked_at EXCEPT ![user_id] = offset_of(S, user_id)]
  ELSE picked_at

Commit(r, user_id, message, ai) ==
  /\ users' = r.users
  /\ sessions' = r.sessions
  /\ tickets' = r.tickets
  /\ now' = r.now
  /\ last' = Call(user_id, message, ai, r.response)
  /\ picked_at' = picked_after(sessions, r.sessions, user_id)

assigned_count(T) == Cardinality({i \in 1..Len(T) : T[i].assigned_to # None})

WithinBounds(r, user_id) ==
  /\ Len(r.tickets) <= MaxTickets
  /\ Len(r.sessions[user_id][1].ai_context) <= MaxAiContext

(* the AI collaborator is called in AI_CHAT only *)
AiOutcomesIn(state) == IF state = "AI_CHAT" THEN AiOutcomes ELSE {"reply"}

ProcessMessage(user_id, message, ai) ==
  /\ message \in InputsIn(state_of(sessions, user_id))
  /\ ai \in AiOutcomesIn(state_of(sessions, user_id))
  /\ \E r \in {process_message(world, user_id, message, ai)} :
       /\ WithinBounds(r, user_id)
       /\ Commit(r, user_id, message, ai)
  /\ UNCHANGED <<inflight, start, rate_state>>

(* BotService.promote_to_psychologist / demote_psychologist *)
Promote(user_id) ==
  /\ promote_to_psychologist(users, user_id).ok
  /\ users' = promote_to_psychologist(users, user_id).users
  /\ UNCHANGED <<sessions, tickets, now, last, picked_at, inflight, start, rate_state>>

Demote(user_id) ==
  /\ demote_psychologist(users, user_id).ok
  /\ users' = demote_psychologist(users, user_id).users
  /\ UNCHANGED <<sessions, tickets, now, last, picked_at, inflight, start, rate_state>>

Init ==
  /\ users = <<>>
  /\ sessions = [u \in Actors |-> None]
  /\ tickets = <<>>
  /\ now = 1
  /\ last = NoCall
  /\ picked_at = [u \in Actors |-> 0]
  /\ inflight = <<>>
  /\ start = <<>>
  /\ rate_state = NoRateState

Next ==
  \/ \E m \in Messages, ai \in AiOutcomes : ProcessMessage(UserA, m, ai)
  \/ Promote(UserA)
  \/ Demote(UserA)

Spec == Init /\ [][Next]_vars

----------------------------------------------------------------------------
(* The administrator's workflow over a populated store: UserA has filed the *)
(* tickets, the staff members have been promoted to psychologist.           *)

SeverityCycle == <<"MEDIUM", "CRITICAL", "LOW", "HIGH">>

StoredTicket(i) ==
  [id |-> i, user_id |-> UserA, topic |-> "topic", gender |-> "gender", age |-> 30,
   severity |-> SeverityCycle[(i % 4) + 1], message |-> "help",
   status |-> IF i % 7 = 0 THEN "CLOSED" ELSE "NEW",
   created_at |-> i, assigned_to |-> None, chat_history |-> <<>>]

StoredTickets(n) == [i \in 1..n |-> StoredTicket(i)]

Directory(staff) ==
  <<UserProfile(AdminId, "admin"), UserProfile(UserA, "user")>>
  \o [i \in 1..staff |-> UserProfile(FirstStaffId + i, "psychologist")]

InitAdmin ==
  /\ \E staff \in {1, MaxStaff} : users = Directory(staff)
  /\ \E n \in {2, MaxStoredTickets} : tickets = StoredTickets(n) /\ now = n + 1
  /\ sessions = [u \in Actors |-> None]
  /\ last = NoCall
  /\ picked_at = [u \in Actors |-> 0]
  /\ inflight = <<>>
  /\ start = <<>>
  /\ rate_state = NoRateState

AdminMessage(message) ==
  /\ message \in InputsIn(state_of(sessions, AdminId))
  /\ \E r \in {process_message(world, AdminId, message, "reply")} :
       /\ assigned_count(r.tickets) <= MaxAssignments
       /\ Commit(r, AdminId, message, "reply")
  /\ UNCHANGED <<inflight, start, rate_state>>

NextAdmin == \E m \in Messages : AdminMessage(m)

SpecAdmin == InitAdmin /\ [][NextAdmin]_vars

----------------------------------------------------------------------------
(* The administrator's pickers while the stores change underneath: other    *)
(* operators assign tickets (BotService.assign_ticket) and demote           *)
(* psychologists (BotService.demote_psychologist) between two messages.     *)

InitChurn ==
  /\ users = Directory(MaxStaff)
  /\ tickets = StoredTickets(MaxStoredTickets)
  /\ now = MaxStoredTickets + 1
  /\ sessions = [u \in Actors |-> None]
  /\ last = NoCall
  /\ picked_at = [u \in Actors |-> 0]
  /\ inflight = <<>>
  /\ start = <<>>
  /\ rate_state = NoRateState

ExternalAssign(ticket_id) ==
  /\ assigned_count(tickets) < MaxExternal
  /\ ticket_get(tickets, ticket_id) # None
  /\ ticket_get(tickets, ticket_id)[1].assigned_to = None
  /\ tickets' = assign_ticket(tickets, ticket_id, FirstStaffId + 1).tickets
  /\ UNCHANGED <<users, sessions, now, last, picked_at, inflight, start, rate_state>>

ExternalDemote ==
  LET psychologists == list_psychologists(users) IN
  /\ Len(psychologists) > MaxStaff - MaxExternal
  /\ Demote(psychologists[Len(psychologists)].user_id)

(* the admin's own assignments are explored by SpecAdmin; here the admin    *)
(* pages, selects and leaves while others change the stores                 *)
ChurnAdminMessage(message) ==
  /\ message \in InputsIn(state_of(sessions, AdminId))
  /\ \E r \in {process_message(world, AdminId, message, "reply")} :
       /\ assigned_count(r.tickets) = assigned_count(tickets)
       /\ Commit(r, AdminId, message, "reply")
  /\ UNCHANGED <<inflight, start, rate_state>>

NextChurn ==
  \/ \E m \in Messages : ChurnAdminMessage(m)
  \/ \E ticket_id \in {1, 2} : ExternalAssign(ticket_id)
  \/ ExternalDemote

SpecChurn == InitChurn /\ [][NextChurn]_vars

----------------------------------------------------------------------------
(* Two messages of one user handled by two workers against a store that     *)
(* hands out copies of the session (SQLiteSessionRepository.get builds a    *)
(* new UserSession from the row).  process_message takes no lock, so the    *)
(* load (lines 44-57) and the rest (lines 59-85) of two calls interleave.   *)

Workers == {1, 2}

ConcMessages == {" /MENU ", "1", "help", ""}

FilledForm ==
  [topic |-> Some("topic"), gender |-> Some("gender"), age |-> Some(30),
   severity |-> Some("HIGH"), message |-> None]

ConcStartSessions ==
  {UserSession(UserA),
   [UserSession(UserA) EXCEPT !.state = "CONSULT_FORM_TOPIC"],
   [UserSession(UserA) EXCEPT !.state = "CONSULT_FORM_MESSAGE",
                              !.consultation_form = FilledForm]}

Received(message) == [pc |-> "received", message |-> message, session |-> None]

InitConc ==
  /\ users = <<UserProfile(UserA, "user")>>
  /\ \E s \in ConcStartSessions :
       sessions = [u \in Actors |-> IF u = UserA THEN Some(s) ELSE None]
  /\ tickets = <<>>
  /\ now = 1
  /\ last = NoCall
  /\ picked_at = [u \in Actors |-> 0]
  /\ \E m1 \in ConcMessages, m2 \in ConcMessages :
       inflight = [w \in Workers |-> Received(IF w = 1 THEN m1 ELSE m2)]
  /\ start = world
  /\ rate_state = NoRateState

Load(w) ==
  /\ inflight[w].pc = "received"
  /\ inflight' = [inflight EXCEPT ![w].pc = "loaded",
                                  ![w].session = Some(load_session(world, UserA))]
  /\ users' = get_or_create_user(users, UserA, None, None, None)
  /\ sessions' = [sessions EXCEPT ![UserA] = Some(load_session(world, UserA))]
  /\ UNCHANGED <<tickets, now, last, picked_at, start, rate_state>>

Finish(w) ==
  /\ inflight[w].pc = "loaded"
  /\ \E r \in {process_loaded(world, inflight[w].session[1], UserA,
                              inflight[w].message, "reply")} :
       Commit(r, UserA, inflight[w].message, "reply")
  /\ inflight' = [inflight EXCEPT ![w].pc = "done"]
  /\ UNCHANGED <<start, rate_state>>

NextConc == \E w \in Workers : Load(w) \/ Finish(w)

SpecConc == InitConc /\ [][NextConc]_vars

(* the stored session and the tickets after handling m1 and then m2 *)
serial_outcome(W, m1, m2) ==
  LET r1 == process_message(W, UserA, m1, "reply")
      r2 == process_message(World(r1.users, r1.sessions, r1.tickets, r1.now),
                            UserA, m2, "reply")
  IN <<r2.sessions[UserA], r2.tickets>>

----------------------------------------------------------------------------
(* The ticket store as the backlog query sees it: tickets are filed with    *)
(* any severity, at the same or a later clock reading than the one before,  *)
(* and their status is updated (BotService.update_ticket_status).           *)

Severities == {"LOW", "MEDIUM", "HIGH", "CRITICAL"}

InitStore ==
  /\ users = <<UserProfile(UserA, "user")>>
  /\ sessions = [u \in Actors |-> None]
  /\ tickets = <<>>
  /\ now = 1
  /\ last = NoCall
  /\ picked_at = [u \in Actors |-> 0]
  /\ inflight = <<>>
  /\ start = <<>>
  /\ rate_state = NoRateState

FileTicket(severity, elapsed) ==
  /\ Len(tickets) < MaxBacklog
  /\ tickets' = _create_ticket_from_form(tickets,
                   [UserSession(UserA) EXCEPT
                      !.consultation_form = [FilledForm EXCEPT
                                               !.severity = Some(severity),
                                               !.message = Some("help")]],
                   now + elapsed)
  /\ now' = now + elapsed
  /\ UNCHANGED <<users, sessions, last, picked_at, inflight, start, rate_state>>

UpdateTicketStatus(ticket_id, status) ==
  /\ update_ticket_status(tickets, ticket_id, status).ok
  /\ tickets' = update_ticket_status(tickets, ticket_id, status).tickets
  /\ UNCHANGED <<users, sessions, now, last, picked_at, inflight, start, rate_state>>

NextStore ==
  \/ \E severity \in Severities, elapsed \in {0, 1} : FileTicket(severity, elapsed)
  \/ \E ticket_id \in 1..MaxBacklog, status \in {"WAITING_RESPONSE", "CLOSED"} :
        UpdateTicketStatus(ticket_id, status)

SpecStore == InitStore /\ [][NextStore]_vars

----------------------------------------------------------------------------
(* The directory and the assignments as the workload query sees them: team  *)
(* members are promoted and demoted, tickets are assigned to anyone         *)
(* (BotService.assign_ticket checks no role) and their status is updated.   *)

Team == {FirstStaffId + i : i \in 1..MaxTeam}

InitTeam ==
  /\ users = <<UserProfile(AdminId, "admin"), UserProfile(UserA, "user")>>
             \o [i \in 1..MaxTeam |-> UserProfile(FirstStaffId + i, "user")]
  /\ sessions = [u \in Actors |-> None]
  /\ tickets = [i \in 1..MaxBacklog |-> [StoredTicket(i) EXCEPT !.status = "NEW"]]
  /\ now = MaxBacklog + 1
  /\ last = NoCall
  /\ picked_at = [u \in Actors |-> 0]
  /\ inflight = <<>>
  /\ start = <<>>
  /\ rate_state = NoRateState

AssignTicket(ticket_id, specialist_id) ==
  /\ assign_ticket(tickets, ticket_id, specialist_id).ok
  /\ tickets' = assign_ticket(tickets, ticket_id, specialist_id).tickets
  /\ UNCHANGED <<users, sessions, now, last, picked_at, inflight, start, rate_state>>

NextTeam ==
  \/ \E u \in Team : Promote(u)
  \/ \E u \in Team : Demote(u)
  \/ \E ticket_id \in 1..MaxBacklog, u \in Team \cup {AdminId} :
        AssignTicket(ticket_id, u)
  \/ \E ticket_id \in 1..MaxBacklog, status \in {"WAITING_RESPONSE", "CLOSED"} :
        UpdateTicketStatus(ticket_id, status)

SpecTeam == InitTeam /\ [][NextTeam]_vars

----------------------------------------------------------------------------
(* A user deep in an AI chat: nine exchanges have been stored, and each     *)
(* further message meets any outcome of the AI collaborator.                *)

ContextCap == 20

EarlierExchanges ==
  [i \in 1..(ContextCap - 2) |->
     IF i % 2 = 1 THEN Turn("user", "earlier") ELSE Turn("assistant", "AI_REPLY")]

chat_turns(ctx) ==
  Cardinality({i \in 1..Len(ctx) : ctx[i].role = "user" /\ ctx[i].content # "earlier"})

InitChat ==
  /\ users = <<UserProfile(UserA, "user")>>
  /\ sessions = [u \in Actors |->
                   IF u = UserA
                   THEN Some([UserSession(UserA) EXCEPT
                                !.state = "AI_CHAT", !.ai_context = EarlierExchanges])
                   ELSE None]
  /\ tickets = <<>>
  /\ now = 1
  /\ last = NoCall
  /\ picked_at = [u \in Actors |-> 0]
  /\ inflight = <<>>
  /\ start = <<>>
  /\ rate_state = NoRateState

ChatMessage(message, ai) ==
  /\ state_of(sessions, UserA) = "AI_CHAT"
  /\ \E r \in {process_message(world, UserA, message, ai)} :
       /\ chat_turns(r.sessions[UserA][1].ai_context) <= MaxChatTurns
       /\ Commit(r, UserA, message, ai)
  /\ UNCHANGED <<inflight, start, rate_state>>

NextChat == \E ai \in AiOutcomes : ChatMessage("x", ai)

SpecChat == InitChat /\ [][NextChat]_vars

----------------------------------------------------------------------------
(* Two AI_CHAT messages of one user handled by two workers while the clock  *)
(* runs.  A worker loads the session and reaches the rate limiter of        *)
(* generate_ai_reply (StartCall); an admitted request is an HTTP call that  *)
(* returns within the timeout (ReturnCall), and the rest of process_message *)
(* follows.                                                                 *)

AiTimeout == 10

Arrived(message) ==
  [pc |-> "received", message |-> message, session |-> None, since |-> 0]

InitRate ==
  /\ users = <<UserProfile(UserA, "user")>>
  /\ sessions = [u \in Actors |->
                   IF u = UserA
                   THEN Some([UserSession(UserA) EXCEPT !.state = "AI_CHAT"])
                   ELSE None]
  /\ tickets = <<>>
  /\ now = 1
  /\ last = NoCall
  /\ picked_at = [u \in Actors |-> 0]
  /\ inflight = [w \in Workers |-> Arrived("x")]
  /\ start = <<>>
  /\ rate_state = NoRateState

StartCall(w) ==
  LET verdict == rate_limit(rate_state[UserA], now) IN
  /\ inflight[w].pc = "received"
  /\ inflight' = [inflight EXCEPT
                    ![w].pc = IF verdict.limited THEN "limited" ELSE "calling",
                    ![w].session = Some(load_session(world, UserA)),
                    ![w].since = now]
  /\ rate_state' = [rate_state EXCEPT ![UserA] = verdict.rate]
  /\ users' = get_or_create_user(users, UserA, None, None, None)
  /\ sessions' = [sessions EXCEPT ![UserA] = Some(load_session(world, UserA))]
  /\ UNCHANGED <<tickets, now, last, picked_at, start>>

ReturnCall(w, ai) ==
  /\ inflight[w].pc \in {"limited", "calling"}
  /\ ai = IF inflight[w].pc = "limited" THEN "rate_limited"
          ELSE IF now - inflight[w].since >= AiTimeout THEN "timeout" ELSE "reply"
  /\ \E r \in {process_loaded(world, inflight[w].session[1], UserA,
                              inflight[w].message, ai)} :
       Commit(r, UserA, inflight[w].message, ai)
  /\ inflight' = [inflight EXCEPT ![w].pc = "done"]
  /\ UNCHANGED <<start, rate_state>>

Tick ==
  /\ now < MaxTime
  /\ \A w \in Workers :
       inflight[w].pc = "calling" => now - inflight[w].since < AiTimeout
  /\ now' = now + 1
  /\ UNCHANGED <<users, sessions, tickets, last, picked_at, inflight, start, rate_state>>

NextRate ==
  \/ \E w \in Workers : StartCall(w)
  \/ \E w \in Workers, ai \in AiOutcomes : ReturnCall(w, ai)
  \/ Tick

SpecRate == InitRate /\ [][NextRate]_vars

----------------------------------------------------------------------------
(* The CLI and demo deployment (in-memory repositories) with a ticket store *)
(* whose create can fail.                                                   *)

ProcessMessageCreateFails(user_id, message) ==
  /\ message \in InputsIn(state_of(sessions, user_id))
  /\ \E r \in {process_message_create_fails(world, user_id, message, "reply")} :
       /\ raised(r.response)
       /\ Commit(r, user_id, message, "reply")
  /\ UNCHANGED <<inflight, start, rate_state>>

NextFail ==
  \/ \E m \in Messages, ai \in AiOutcomes : ProcessMessage(UserA, m, ai)
  \/ \E m \in Messages : ProcessMessageCreateFails(UserA, m)

SpecFail == Init /\ [][NextFail]_vars

----------------------------------------------------------------------------
(* The role directory on its own: profiles are created on first contact,    *)
(* and promote / demote are called for any id, known or not, whatever its   *)
(* role; the last call and what it returned are kept in last.  The admin    *)
(* writes to the bot in between.                                            *)

RoleIds == {AdminId, UserA, FirstStaffId + 1}

Returned(user_id, method, value) ==
  Call(user_id, method, "reply", Reply(IF value THEN "True" ELSE "False"))

(* the metadata a transport passes along: none (CLI), or a Telegram         *)
(* sender's names, which change between two messages                        *)
Metadata ==
  {<<None, None, None>>, <<Some("ann"), Some("Ann"), Some("Lee")>>,
   <<Some("bob"), Some("Bob"), None>>}

ReturnedProfile(profile) ==
  [text |-> "profile", page |-> [NoPage EXCEPT !.kind = "profile",
                                               !.items = <<profile>>]]

GetOrCreateUser(user_id, metadata) ==
  /\ users' = get_or_create_user(users, user_id,
                                 metadata[1], metadata[2], metadata[3])
  /\ last' = Call(user_id, "get_or_create_user", "reply",
                  ReturnedProfile(get_user(users', user_id)[1]))
  /\ UNCHANGED <<sessions, tickets, now, picked_at, inflight, start, rate_state>>

PromoteToPsychologist(user_id) ==
  /\ users' = promote_to_psychologist(users, user_id).users
  /\ last' = Returned(user_id, "promote_to_psychologist",
                      promote_to_psychologist(users, user_id).ok)
  /\ UNCHANGED <<sessions, tickets, now, picked_at, inflight, start, rate_state>>

DemotePsychologist(user_id) ==
  /\ users' = demote_psychologist(users, user_id).users
  /\ last' = Returned(user_id, "demote_psychologist",
                      demote_psychologist(users, user_id).ok)
  /\ UNCHANGED <<sessions, tickets, now, picked_at, inflight, start, rate_state>>

NextRoles ==
  \/ \E m \in Messages : AdminMessage(m)
  \/ \E u \in RoleIds, metadata \in Metadata : GetOrCreateUser(u, metadata)
  \/ \E u \in RoleIds : PromoteToPsychologist(u)
  \/ \E u \in RoleIds : DemotePsychologist(u)

SpecRoles == Init /\ [][NextRoles]_vars

----------------------------------------------------------------------------
(* The life of tickets in the store: they are filed, assigned, their status *)
(* is updated, and requester and specialist write into their chat.          *)

FileHighTicket ==
  /\ Len(tickets) < MaxFiled
  /\ FileTicket("HIGH", 1)

AddMessageToTicket(ticket_id, user_id, message) ==
  /\ add_message_to_ticket(tickets, ticket_id, user_id, message, now).ok
  /\ Len(ticket_get(tickets, ticket_id)[1].chat_history) < MaxChatEntries
  /\ tickets' = add_message_to_ticket(tickets, ticket_id, user_id, message, now).tickets
  /\ UNCHANGED <<users, sessions, now, last, picked_at, inflight, start, rate_state>>

NextTickets ==
  \/ FileHighTicket
  \/ \E ticket_id \in 1..MaxFiled : AssignTicket(ticket_id, FirstStaffId + 1)
  \/ \E ticket_id \in 1..MaxFiled, status \in {"WAITING_RESPONSE", "CLOSED"} :
        UpdateTicketStatus(ticket_id, status)
  \/ \E ticket_id \in 1..MaxFiled, user_id \in {UserA, FirstStaffId + 1} :
        AddMessageToTicket(ticket_id, user_id, "help")

SpecTickets == InitStore /\ [][NextTickets]_vars

----------------------------------------------------------------------------
(* Two ordinary users write to the bot in any order. *)

PairMessages == {" /MENU ", "1", "2", "topic", "gender", "x"}

NextPair ==
  \E user_id \in {UserA, UserB}, m \in PairMessages :
    ProcessMessage(user_id, m, "reply")

SpecPair == Init /\ [][NextPair]_vars

----------------------------------------------------------------------------
(* A user at the Age step of the form, who answers it and the Severity step *)
(* with boundary values, names in any case and unusable texts, files the    *)
(* ticket and starts over.                                                  *)

AgeInputs == {"0", "1", " 1 ", "30", "120", "121", "x", "", " /MENU "}

SeverityInputs ==
  {"0", "1", "2", "3", "4", "10", "nizkaya", "Srednyaya", "VYSOKAYA",
   " Kriticheskaya ", "x", "", " /MENU "}

InitForm ==
  /\ users = <<UserProfile(UserA, "user")>>
  /\ sessions = [u \in Actors |->
                   IF u = UserA
                   THEN Some([UserSession(UserA) EXCEPT
                                !.state = "CONSULT_FORM_AGE",
                                !.consultation_form.topic = Some("topic"),
                                !.consultation_form.gender = Some("gender")])
                   ELSE None]
  /\ tickets = <<>>
  /\ now = 1
  /\ last = NoCall
  /\ picked_at = [u \in Actors |-> 0]
  /\ inflight = <<>>
  /\ start = <<>>
  /\ rate_state = NoRateState

(* the texts sent in each state: the steps under study get every input,    *)
(* the others one usable answer                                             *)
FormInputsIn(state) ==
  CASE state = "CONSULT_FORM_AGE" -> AgeInputs
    [] state = "CONSULT_FORM_SEVERITY" -> SeverityInputs
    [] state = "CONSULT_FORM_MESSAGE" -> {"help"}
    [] state = "CONSULT_FORM_TOPIC" -> {"topic"}
    [] state = "CONSULT_FORM_GENDER" -> {"gender"}
    [] state = "MENU" -> {"1"}
    [] OTHER -> {}

FormAnswer(message) ==
  /\ message \in FormInputsIn(state_of(sessions, UserA))
  /\ \E r \in {process_message(world, UserA, message, "reply")} :
       /\ WithinBounds(r, UserA)
       /\ Commit(r, UserA, message, "reply")
  /\ UNCHANGED <<inflight, start, rate_state>>

NextForm ==
  \E m \in AgeInputs \cup SeverityInputs \cup {"help", "topic", "gender"} :
    FormAnswer(m)

SpecForm == InitForm /\ [][NextForm]_vars

----------------------------------------------------------------------------
(* An ordinary user who answers the main menu with numerals, option names   *)
(* in any case and unusable texts, and otherwise goes on as usual.          *)

MenuInputs ==
  {"1", "2", "3", "4", "konsultaciya so specialistom", "Konsultaciya s II",
   "usloviya obrashcheniya", "vopros po psihologii", "/start", " /MENU ",
   "0", "10", "x", ""}

MenuAnswer(message) ==
  /\ state_of(sessions, UserA) = "MENU"
  /\ message \in MenuInputs
  /\ \E r \in {process_message(world, UserA, message, "reply")} :
       /\ WithinBounds(r, UserA)
       /\ Commit(r, UserA, message, "reply")
  /\ UNCHANGED <<inflight, start, rate_state>>

NextMenu ==
  \/ \E m \in MenuInputs : MenuAnswer(m)
  \/ \E m \in Messages : ProcessMessage(UserA, m, "reply")

SpecMenu == Init /\ [][NextMenu]_vars

----------------------------------------------------------------------------
(* A user with a long AI chat behind them who chats on, sends the clear     *)
(* command in its spellings in any state, and uses the menu and the form.   *)

ClearInputs == {"/clear", "clear", " /CLEAR "}

ClearMessage(message) ==
  /\ message \in ClearInputs
  /\ state_of(sessions, UserA) \in {"AI_CHAT", "MENU", "TERMS", "CONSULT_FORM_TOPIC"}
  /\ state_of(sessions, UserA) = "AI_CHAT" \/ message = "/clear"
  /\ \E r \in {process_message(world, UserA, message, "reply")} :
       /\ Len(r.tickets) <= MaxTickets
       /\ chat_turns(r.sessions[UserA][1].ai_context) <= MaxChatTurns
       /\ Commit(r, UserA, message, "reply")
  /\ UNCHANGED <<inflight, start, rate_state>>

(* the other texts sent in each state: the menu command, the menu options   *)
(* that lead to a state of an ordinary user, one usable answer per step     *)
OtherInputsIn(state) ==
  CASE state = "MENU" -> {"1", "2", "3", "4", "/start"}
    [] state = "AI_CHAT" -> {" /MENU "}
    [] state = "CONSULT_FORM_TOPIC" -> {"topic", "/menu"}
    [] state = "CONSULT_FORM_GENDER" -> {"gender"}
    [] state = "CONSULT_FORM_AGE" -> {"30"}
    [] state = "CONSULT_FORM_SEVERITY" -> {"3"}
    [] state = "CONSULT_FORM_MESSAGE" -> {"help"}
    [] OTHER -> {"x"}

OtherMessage(message) ==
  /\ message \in OtherInputsIn(state_of(sessions, UserA))
  /\ \E r \in {process_message(world, UserA, message, "reply")} :
       /\ Len(r.tickets) < MaxFiled
       /\ Commit(r, UserA, message, "reply")
  /\ UNCHANGED <<inflight, start, rate_state>>

NextClear ==
  \/ \E ai \in AiOutcomes : ChatMessage("x", ai)
  \/ \E m \in ClearInputs : ClearMessage(m)
  \/ \E m \in Messages : OtherMessage(m)

SpecClear == InitChat /\ [][NextClear]_vars

----------------------------------------------------------------------------
(* The two page renderers applied to lists of every length from empty to    *)
(* more than one page, at the offsets of the first and the second page.     *)

RenderOffsets == {0, PageSize}

InitRender ==
  /\ \E staff \in 0..MaxListed : users = Directory(staff)
  /\ \E n \in 0..MaxListed :
       tickets = [i \in 1..n |-> [StoredTicket(i) EXCEPT !.status = "NEW"]]
  /\ now = MaxListed + 1
  /\ sessions = [u \in Actors |-> None]
  /\ last = NoCall
  /\ picked_at = [u \in Actors |-> 0]
  /\ inflight = <<>>
  /\ start = <<>>
  /\ rate_state = NoRateState

Rendered(state, offset, response) ==
  /\ sessions' = [sessions EXCEPT ![AdminId] =
                    Some([UserSession(AdminId) EXCEPT
                            !.state = state, !.pagination_offset = offset])]
  /\ last' = Call(AdminId, "render", "reply", response)
  /\ UNCHANGED <<users, tickets, now, picked_at, inflight, start, rate_state>>

RenderTicketsPage(offset) ==
  /\ offset \in RenderOffsets
  /\ Rendered("ADMIN_ASSIGN_TICKET_SELECT", offset,
              _render_tickets_page(get_sorted_tickets_for_assignment(tickets), offset))

RenderPsychologistsPage(offset) ==
  /\ offset \in RenderOffsets
  /\ Rendered("ADMIN_ASSIGN_PSYCHO_SELECT", offset,
              _render_psychologists_page(StoredTicket(1),
                                         get_psychologists_by_workload(users, tickets),
                                         offset))

NextRender ==
  \/ \E offset \in RenderOffsets : RenderTicketsPage(offset)
  \/ \E offset \in RenderOffsets : RenderPsychologistsPage(offset)

SpecRender == InitRender /\ [][NextRender]_vars

----------------------------------------------------------------------------
(* Properties *)

MenuWords == {"/menu", "menu"}

session_of(S, user_id) == S[user_id][1]

form_of(S, user_id) == session_of(S, user_id).consultation_form

selected_of(S, user_id) ==
  IF S[user_id] = None THEN None ELSE S[user_id][1].selected_ticket_id

Called == last.user_id \in Actors

(* C1: after a message that is '/menu' or 'menu' (trimmed, any case) has    *)
(* been handled, the sender's session is in MENU with an empty form,        *)
(* pagination_offset 0 and no selected ticket, whatever the prior state     *)
(* and the sender's role.                                                   *)
C1_MenuResetsSession ==
  (Called /\ strip_lower(last.message) \in MenuWords) =>
    LET session == session_of(sessions, last.user_id) IN
    /\ session.state = "MENU"
    /\ session.consultation_form = ConsultationForm
    /\ session.pagination_offset = 0
    /\ session.selected_ticket_id = None

(* C2: for an ordinary user, a message creates exactly one ticket if it     *)
(* answers the Message step of the form (the fifth step of a traversal)     *)
(* and creates no ticket otherwise.                                         *)
C2_OneTicketPerTraversal ==
  [][(last'.user_id = UserA /\ get_role(users, UserA) = "user"
      /\ sessions' # sessions) =>
       IF /\ state_of(sessions, UserA) = "CONSULT_FORM_MESSAGE"
          /\ strip_lower(last'.message) \notin MenuWords
       THEN Len(tickets') = Len(tickets) + 1
       ELSE tickets' = tickets]_vars

(* C3: once both concurrently handled messages of the user are done, the    *)
(* stored session and the ticket store equal the result of handling the     *)
(* two messages one after the other, in one of the two orders.              *)
C3_SerialOutcome ==
  (\A w \in Workers : inflight[w].pc = "done") =>
     <<sessions[UserA], tickets>> \in
        {serial_outcome(start, inflight[1].message, inflight[2].message),
         serial_outcome(start, inflight[2].message, inflight[1].message)}

(* C4: every stored session whose state is MENU has all five form fields   *)
(* absent.                                                                  *)
C4_MenuHasEmptyForm ==
  \A u \in Actors :
    (sessions[u] # None /\ state_of(sessions, u) = "MENU") =>
       form_of(sessions, u) = ConsultationForm

(* C5: a ticket created by a message has the sender as requester, topic,    *)
(* gender, age and severity as stored by the earlier form steps and the     *)
(* message text as description, status New and no assigned specialist; the  *)
(* same message resets the sender's form and sets current_ticket_id to the  *)
(* new ticket's id, which no older ticket has.                              *)
C5_TicketFromForm ==
  [][Len(tickets') = Len(tickets) + 1 =>
       LET ticket == tickets'[Len(tickets')]
           form == form_of(sessions, last'.user_id)
           saved == session_of(sessions', last'.user_id)
       IN /\ SubSeq(tickets', 1, Len(tickets)) = tickets
          /\ ticket.user_id = last'.user_id
          /\ Some(ticket.topic) = form.topic
          /\ Some(ticket.gender) = form.gender
          /\ Some(ticket.age) = form.age
          /\ Some(ticket.severity) = form.severity
          /\ ticket.message = last'.message
          /\ ticket.status = "NEW"
          /\ ticket.assigned_to = None
          /\ \A i \in 1..Len(tickets) : tickets[i].id # ticket.id
          /\ saved.consultation_form = ConsultationForm
          /\ saved.current_ticket_id = Some(ticket.id)
          /\ saved.state = "MENU"]_vars

C5_Witness ==
  /\ Called
  /\ last.response.text = "TICKET_CREATED_AND_MENU_TEXT"
  /\ tickets # <<>>
  /\ tickets[Len(tickets)].topic = "topic"
  /\ tickets[Len(tickets)].message = last.message
  /\ session_of(sessions, last.user_id).current_ticket_id
       = Some(tickets[Len(tickets)].id)


Pickers == {"ADMIN_ASSIGN_TICKET_SELECT", "ADMIN_ASSIGN_PSYCHO_SELECT"}

(* the message parses as an integer in 1..10 *)
numeral_1_to_10(message) == to_int(message) \in {Some(n) : n \in 1..10}

admin_state == state_of(sessions, AdminId)

(* the list the picker the admin is in pages over *)
picker_total ==
  IF admin_state = "ADMIN_ASSIGN_TICKET_SELECT"
  THEN Len(get_sorted_tickets_for_assignment(tickets))
  ELSE Len(list_psychologists(users))

picker_frame ==
  /\ state_of(sessions', AdminId) = admin_state
  /\ selected_of(sessions', AdminId) = selected_of(sessions, AdminId)

(* C6: in ADMIN_ASSIGN_PSYCHO_SELECT a numeral n in 1..10 that addresses an *)
(* entry of the workload-sorted psychologist list assigns the selected      *)
(* ticket to that psychologist with status In-Progress, and the admin's     *)
(* session ends in ADMIN_MENU with pagination_offset 0 and no selected      *)
(* ticket.                                                                  *)
C6_AssignmentByNumeral ==
  [][(/\ admin_state = "ADMIN_ASSIGN_PSYCHO_SELECT"
      /\ last'.user_id = AdminId
      /\ numeral_1_to_10(last'.message)
      /\ offset_of(sessions, AdminId) + to_int(last'.message)[1] - 1
           < Len(list_psychologists(users))) =>
       LET psychologists == get_psychologists_by_workload(users, tickets)
           chosen == psychologists[offset_of(sessions, AdminId)
                                   + to_int(last'.message)[1]]
           selected == selected_of(sessions, AdminId)[1]
           ticket == ticket_get(tickets', selected)[1]
       IN /\ ticket.assigned_to = Some(chosen.user_id)
          /\ ticket.status = "IN_PROGRESS"
          /\ \A i \in 1..Len(tickets) :
               tickets[i].id # selected => tickets'[i] = tickets[i]
          /\ state_of(sessions', AdminId) = "ADMIN_MENU"
          /\ offset_of(sessions', AdminId) = 0
          /\ selected_of(sessions', AdminId) = None]_vars

C6_Witness ==
  /\ last.user_id = AdminId
  /\ last.response.text = "TICKET_ASSIGNED"
  /\ admin_state = "ADMIN_MENU"
  /\ \E i \in 1..Len(tickets) :
       /\ tickets[i].status = "IN_PROGRESS"
       /\ tickets[i].assigned_to = Some(FirstStaffId + 11)

(* C7: an exit word in ADMIN_ASSIGN_PSYCHO_SELECT returns the session to    *)
(* ADMIN_ASSIGN_TICKET_SELECT, clears the selected ticket and shows the     *)
(* ticket page at the offset the admin held in the ticket picker when the   *)
(* ticket was chosen.                                                       *)
C7_ExitRestoresTicketPage ==
  [][(/\ admin_state = "ADMIN_ASSIGN_PSYCHO_SELECT"
      /\ last'.user_id = AdminId
      /\ strip_lower(last'.message) \in ExitWords) =>
       /\ state_of(sessions', AdminId) = "ADMIN_ASSIGN_TICKET_SELECT"
       /\ selected_of(sessions', AdminId) = None
       /\ offset_of(sessions', AdminId) = picked_at[AdminId]
       /\ last'.response.page.kind = "tickets"
       /\ last'.response.page.page_num = (picked_at[AdminId] \div PageSize) + 1]_vars

(* C8: in either picker a next word raises pagination_offset by 10 if       *)
(* offset + 10 is below the length of the paged list and otherwise leaves   *)
(* it unchanged and replies with the last-page notice; a prev word sets it  *)
(* to max(0, offset - 10); neither changes the state or the selected        *)
(* ticket.                                                                  *)
C8_Paging ==
  [][(admin_state \in Pickers /\ last'.user_id = AdminId) =>
       LET offset == offset_of(sessions, AdminId)
           offset2 == offset_of(sessions', AdminId)
           word == strip_lower(last'.message)
       IN /\ word \in NextWords =>
               /\ picker_frame
               /\ IF offset + 10 < picker_total
                  THEN offset2 = offset + 10
                  ELSE offset2 = offset /\ last'.response.text = "LAST_PAGE"
          /\ word \in PrevWords =>
               /\ picker_frame
               /\ offset2 = (IF offset - 10 > 0 THEN offset - 10 ELSE 0)]_vars

C8_Witness ==
  /\ last.user_id = AdminId
  /\ strip_lower(last.message) \in NextWords
  /\ admin_state = "ADMIN_ASSIGN_PSYCHO_SELECT"
  /\ offset_of(sessions, AdminId) = 10
  /\ last.response.page.page_num = 2

(* C9: in ADMIN_ASSIGN_TICKET_SELECT a numeral n in 1..10 addresses the     *)
(* backlog entry at index offset + n - 1 (from 0): if it exists, its id     *)
(* becomes selected_ticket_id, pagination_offset becomes 0 and the state    *)
(* ADMIN_ASSIGN_PSYCHO_SELECT; if not, the reply is 'not found' and state,  *)
(* offset and selected ticket are unchanged.                                *)
C9_TicketByNumeral ==
  [][(/\ admin_state = "ADMIN_ASSIGN_TICKET_SELECT"
      /\ last'.user_id = AdminId
      /\ numeral_1_to_10(last'.message)) =>
       LET sorted == get_sorted_tickets_for_assignment(tickets)
           index == offset_of(sessions, AdminId) + to_int(last'.message)[1] - 1
       IN IF index < Len(sorted)
          THEN /\ selected_of(sessions', AdminId) = Some(sorted[index + 1].id)
               /\ offset_of(sessions', AdminId) = 0
               /\ state_of(sessions', AdminId) = "ADMIN_ASSIGN_PSYCHO_SELECT"
          ELSE /\ last'.response.text = "TICKET_NOT_FOUND"
               /\ picker_frame
               /\ offset_of(sessions', AdminId) = offset_of(sessions, AdminId)]_vars

C9_Witness ==
  /\ last.user_id = AdminId
  /\ to_int(last.message) = Some(1)
  /\ admin_state = "ADMIN_ASSIGN_PSYCHO_SELECT"
  /\ picked_at[AdminId] = 10
  /\ Len(get_sorted_tickets_for_assignment(tickets)) > 10
  /\ selected_of(sessions, AdminId)
       = Some(get_sorted_tickets_for_assignment(tickets)[11].id)

UsageHints == {"INVALID_INPUT_TICKET_USAGE", "INVALID_INPUT_PSYCHOLOGIST_USAGE"}

rejected_with_hint ==
  /\ last'.response.text \in UsageHints
  /\ picker_frame
  /\ offset_of(sessions', AdminId) = offset_of(sessions, AdminId)

(* C10 as claimed: in both pickers every input other than a numeral 1-10,   *)
(* a next/prev word, an exit word or /menu is rejected with a usage hint    *)
(* and leaves state, pagination_offset and selected ticket unchanged.       *)
C10_OtherInputRejected ==
  [][(/\ admin_state \in Pickers
      /\ last'.user_id = AdminId
      /\ ~numeral_1_to_10(last'.message)
      /\ strip_lower(last'.message)
           \notin (NextWords \cup PrevWords \cup ExitWords \cup MenuWords)) =>
       rejected_with_hint]_vars

(* C10 amended: in both pickers every input other than a numeral 1-10, a    *)
(* next/prev word, an exit word, /menu or '/start' / 'start' is rejected    *)
(* with a usage hint and leaves state, pagination_offset and selected       *)
(* ticket unchanged.                                                        *)
C10_OtherInputRejectedExceptStart ==
  [][(/\ admin_state \in Pickers
      /\ last'.user_id = AdminId
      /\ ~numeral_1_to_10(last'.message)
      /\ strip_lower(last'.message)
           \notin (NextWords \cup PrevWords \cup ExitWords \cup MenuWords
                   \cup StartWords)) =>
       rejected_with_hint]_vars

C10_Witness ==
  /\ last.user_id = AdminId
  /\ last.message = "11"
  /\ last.response.text = "INVALID_INPUT_PSYCHOLOGIST_USAGE"
  /\ admin_state = "ADMIN_ASSIGN_PSYCHO_SELECT"
  /\ offset_of(sessions, AdminId) = 10

(* C11: in every stored session pagination_offset is a non-negative         *)
(* multiple of 10, whatever paging, selecting, leaving was done and however *)
(* the backlog and the list of psychologists changed in between.            *)
C11_OffsetMultipleOfPage ==
  \A u \in Actors :
    sessions[u] # None =>
      /\ offset_of(sessions, u) >= 0
      /\ offset_of(sessions, u) % 10 = 0

(* the admin is shown a ticket page at offset 10 that is empty because the  *)
(* backlog has shrunk to ten tickets while the offset was held              *)
C11_Witness ==
  /\ sessions[AdminId] # None
  /\ state_of(sessions, AdminId) = "ADMIN_ASSIGN_TICKET_SELECT"
  /\ offset_of(sessions, AdminId) = 10
  /\ Len(get_sorted_tickets_for_assignment(tickets)) <= 10
  /\ last.response.page.kind = "tickets"
  /\ last.response.page.items = <<>>

(* C12: a message that moves the admin's session out of a picker into a     *)
(* state that is not a picker leaves pagination_offset at 0.                *)
C12_LeavingPickerResetsOffset ==
  [][(/\ last'.user_id = AdminId
      /\ sessions[AdminId] # None
      /\ state_of(sessions, AdminId) \in Pickers
      /\ state_of(sessions', AdminId) \notin Pickers) =>
       offset_of(sessions', AdminId) = 0]_vars

(* Critical before High before Medium before Low *)
urgency_rank(severity) ==
  CASE severity = "CRITICAL" -> 1 [] severity = "HIGH" -> 2
    [] severity = "MEDIUM" -> 3 [] severity = "LOW" -> 4

sorted_backlog_ok(result, T) ==
  LET open_ids == {T[i].id : i \in {j \in 1..Len(T) :
                                     T[j].status \in {"NEW", "WAITING_RESPONSE"}}}
  IN /\ Len(result) = Cardinality(open_ids)
     /\ {result[i].id : i \in 1..Len(result)} = open_ids
     /\ \A i \in 1..Len(result) : \E j \in 1..Len(T) : T[j] = result[i]
     /\ \A i \in 1..(Len(result) - 1) :
          \/ urgency_rank(result[i].severity) < urgency_rank(result[i + 1].severity)
          \/ /\ result[i].severity = result[i + 1].severity
             /\ result[i].created_at <= result[i + 1].created_at

(* C13: get_sorted_tickets_for_assignment returns exactly the tickets with  *)
(* status New or Waiting-Response, each adjacent pair ordered by severity   *)
(* (Critical first) and, at equal severity, by creation time (older first), *)
(* whichever order the ticket store lists the tickets in.                   *)
C13_SortedBacklog ==
  \A listing \in {get_all_in_memory(tickets), get_all_sqlite(tickets)} :
     sorted_backlog_ok(get_sorted_tickets_for_assignment(listing), tickets)

(* three tickets, one closed; the two open ones have the same severity and  *)
(* the store lists the younger one first                                    *)
C13_Witness ==
  LET result == get_sorted_tickets_for_assignment(get_all_sqlite(tickets)) IN
  /\ Len(tickets) = 3
  /\ Len(result) = 2
  /\ result[1].severity = result[2].severity
  /\ result[1].created_at < result[2].created_at
  /\ \E i \in 1..2 : result[i].status = "WAITING_RESPONSE"
  /\ \E i \in 1..3 : tickets[i].status = "CLOSED"

(* tickets assigned to the user that are New, In-Progress or Waiting *)
active_count(T, user_id) ==
  Cardinality({i \in 1..Len(T) :
                 /\ T[i].assigned_to = Some(user_id)
                 /\ T[i].status \in {"NEW", "IN_PROGRESS", "WAITING_RESPONSE"}})

directory_position(U, user_id) == CHOOSE i \in 1..Len(U) : U[i].user_id = user_id

(* C14: get_psychologists_by_workload returns exactly the users whose role  *)
(* is psychologist, never an admin, in ascending order of their count of    *)
(* active assigned tickets, psychologists with equal counts in the order    *)
(* of the directory.                                                        *)
C14_PsychologistsByWorkload ==
  LET result == get_psychologists_by_workload(users, tickets)
      ids == {users[i].user_id : i \in {j \in 1..Len(users) :
                                          users[j].role = "psychologist"}}
  IN /\ Len(result) = Cardinality(ids)
     /\ {result[i].user_id : i \in 1..Len(result)} = ids
     /\ \A i \in 1..Len(result) :
          result[i].role = "psychologist" /\ result[i].user_id \notin admin_ids
     /\ \A i \in 1..Len(result), j \in 1..Len(result) :
          i < j =>
            \/ active_count(tickets, result[i].user_id)
                 < active_count(tickets, result[j].user_id)
            \/ /\ active_count(tickets, result[i].user_id)
                    = active_count(tickets, result[j].user_id)
               /\ directory_position(users, result[i].user_id)
                    < directory_position(users, result[j].user_id)

(* two psychologists listed against the directory's order: the first has    *)
(* only a closed ticket, the second an active one, and the admin holds a    *)
(* ticket too                                                               *)
C14_Witness ==
  LET result == get_psychologists_by_workload(users, tickets) IN
  /\ Len(result) = 2
  /\ directory_position(users, result[1].user_id)
       > directory_position(users, result[2].user_id)
  /\ \E i \in 1..Len(tickets) :
        tickets[i].assigned_to = Some(result[1].user_id) /\ tickets[i].status = "CLOSED"
  /\ active_count(tickets, result[1].user_id) = 0
  /\ active_count(tickets, result[2].user_id) = 1
  /\ \E i \in 1..Len(tickets) : tickets[i].assigned_to = Some(AdminId)

context_of(S, user_id) == IF S[user_id] = None THEN <<>> ELSE S[user_id][1].ai_context

(* C15: every stored session holds at most 20 entries in ai_context,        *)
(* whether the AI collaborator's calls succeeded or failed.                 *)
C15_ContextAtMost20 ==
  \A u \in Actors : Len(context_of(sessions, u)) <= 20

(* the step is an AI_CHAT message during which the collaborator failed *)
failed_chat_step ==
  /\ last'.user_id = UserA
  /\ last' # last \/ sessions' # sessions
  /\ state_of(sessions, UserA) = "AI_CHAT"
  /\ last'.ai # "reply"

stored_after_user_turn(text) ==
  LET ctx == context_of(sessions', UserA) IN
  /\ Len(ctx) >= 2
  /\ ctx[Len(ctx) - 1] = Turn("user", last'.message)
  /\ ctx[Len(ctx)] = Turn("assistant", text)

failure_text(ai) ==
  CASE ai = "timeout"       -> "TIMEOUT_RESPONSE"
    [] ai = "rate_limited"  -> "RATE_LIMIT_MESSAGE"
    [] ai = "service_error" -> "FALLBACK_RESPONSE"
    [] ai = "exception"     -> "FALLBACK"

C17_AlwaysOneReply ==
  Called => (~raised(last.response) /\ last.response.text # "")

(* C18: at no time are two AI collaborator calls of one user outstanding:   *)
(* a message that meets the rate limiter while an earlier call is still in  *)
(* flight is refused, however long that call takes.                         *)
C18_OneCallOutstanding ==
  Cardinality({w \in Workers : inflight[w].pc = "calling"}) <= 1

(* C19: a call that fails in the ticket store leaves the sender's stored    *)
(* session exactly as it was before the message.                            *)
C19_FailedCallKeepsSession ==
  [][(last'.response.text = "StoreError" /\ raised(last'.response)) =>
       sessions'[last'.user_id] = sessions[last'.user_id]]_vars

(* the same call had the sender held the ordinary role *)
as_ordinary_user(W, user_id, message, ai) ==
  process_message([W EXCEPT !.users = demote_psychologist(W.users, user_id).users],
                  user_id, message, ai)

(* C20: a psychologist whose session is in neither PSY_MENU nor             *)
(* PSY_TICKETS_LIST gets the session and the reply an ordinary user in the  *)
(* same session state gets.                                                 *)
C20_PsychologistAsOrdinaryUser ==
  [][(/\ last' # last
      /\ is_psychologist(users, last'.user_id)
      /\ state_of(sessions, last'.user_id) \notin {"PSY_MENU", "PSY_TICKETS_LIST"})
     => LET r == as_ordinary_user(world, last'.user_id, last'.message, last'.ai)
        IN /\ sessions'[last'.user_id] = r.sessions[last'.user_id]
           /\ last'.response = r.response]_vars

(* C21: whatever identifier the admin sends in ADMIN_MANAGE_PSYCHOLOGISTS,  *)
(* a reply is produced and the admin's session returns to ADMIN_MENU.       *)
C21_ManageRepliesAndReturns ==
  [][state_of(sessions, AdminId) = "ADMIN_MANAGE_PSYCHOLOGISTS" =>
       (/\ ~raised(last'.response)
        /\ state_of(sessions', AdminId) = "ADMIN_MENU")]_vars

(* the role field of the profile stored for an id, if there is one *)
stored_role(U, user_id) ==
  LET found == {i \in 1..Len(U) : U[i].user_id = user_id} IN
  IF found = {} THEN None ELSE Some(U[CHOOSE i \in found : TRUE].role)

(* directory U2 is U with the one profile of user_id moved to the role *)
only_role_changed(U, U2, user_id, role) ==
  /\ Len(U2) = Len(U)
  /\ \A i \in 1..Len(U) :
       U2[i] = IF U[i].user_id = user_id THEN [U[i] EXCEPT !.role = role] ELSE U[i]

(* C22: promote_to_psychologist returns True exactly for a stored profile   *)
(* of role user and makes it psychologist, demote_psychologist exactly for  *)
(* a stored psychologist and makes it user; a call that returns False (id   *)
(* unknown, admin, already in the target role) changes nothing, and no call *)
(* touches or creates an admin.                                             *)
C22_PromoteDemoteBetweenUserAndPsychologist ==
  [][last'.message \in {"promote_to_psychologist", "demote_psychologist"} =>
       LET u == last'.user_id
           promote == last'.message = "promote_to_psychologist"
           source == IF promote THEN "user" ELSE "psychologist"
           target == IF promote THEN "psychologist" ELSE "user"
           ok == last'.response.text = "True"
       IN /\ ok <=> stored_role(users, u) = Some(source)
          /\ ok => only_role_changed(users, users', u, target)
          /\ ~ok => users' = users
          /\ \A a \in RoleIds :
               (stored_role(users, a) = Some("admin")) <=>
               (stored_role(users', a) = Some("admin"))]_vars

(* an admin with a profile has been refused promotion next to a promoted    *)
(* user                                                                     *)
C22_Witness ==
  /\ last = Returned(AdminId, "promote_to_psychologist", FALSE)
  /\ stored_role(users, AdminId) = Some("admin")
  /\ stored_role(users, UserA) = Some("psychologist")

(* C23: the id listed in admin_ids is an admin in every state, with or      *)
(* without a profile and whatever get_or_create_user, promote and demote    *)
(* calls were made; list_psychologists never returns it; and each of its    *)
(* messages is answered by the admin handler.                               *)
C23_ListedAdminIsAlwaysAdmin ==
  /\ [](/\ is_admin(users, AdminId)
        /\ \A i \in 1..Len(list_psychologists(users)) :
             list_psychologists(users)[i].user_id # AdminId)
  /\ [][(last'.user_id = AdminId /\ last'.message \in Messages) =>
          last'.response =
            _handle_admin_message(load_session(world, AdminId), last'.message,
                                  AdminId, users', tickets).response]_vars

(* the admin's first message, sent before any profile of the admin existed  *)
(* and after another user had been made psychologist, got the admin panel   *)
C23_Witness ==
  /\ last.user_id = AdminId
  /\ last.response = Reply("ADMIN_PANEL")
  /\ users # <<>>
  /\ users[Len(users)].user_id = AdminId
  /\ list_psychologists(users) # <<>>

(* C24: get_or_create_user for an id that has a profile returns that        *)
(* profile, username, names and role as they were, and leaves the whole     *)
(* directory unchanged, whatever metadata is passed; only a call for an id  *)
(* without a profile adds one, the profile it returns.                      *)
C24_FirstWriteWins ==
  [][last'.message = "get_or_create_user" =>
       LET u == last'.user_id
           returned == last'.response.page.items[1]
           held == {i \in 1..Len(users) : users[i].user_id = u}
       IN IF held # {}
          THEN /\ users' = users
               /\ \A i \in held : returned = users[i]
          ELSE /\ users' = Append(users, returned)
               /\ returned.user_id = u]_vars

(* a second call with other names came back with the names of the first *)
C24_Witness ==
  /\ last.user_id = UserA
  /\ last.message = "get_or_create_user"
  /\ last.response.page.items[1].username = Some("ann")
  /\ \E i \in 1..Len(users) :
       users[i].user_id = UserA /\ users[i].role = "psychologist"

FixedTicketFields ==
  {"id", "user_id", "topic", "gender", "age", "severity", "message", "created_at"}

is_prefix(s, t) == Len(s) <= Len(t) /\ SubSeq(t, 1, Len(s)) = s

(* C25: a ticket in the store stays in the store with its id, requester,    *)
(* topic, gender, age, severity, description and creation time; one         *)
(* operation either leaves a ticket's chat alone (and may set assigned_to   *)
(* and status) or appends one entry to it and touches nothing else; chat    *)
(* entries already there stay as they are.                                  *)
C25_TicketsKeptAndFixed ==
  [][/\ Len(tickets') >= Len(tickets)
     /\ \A i \in 1..Len(tickets) :
          /\ \A f \in FixedTicketFields : tickets'[i][f] = tickets[i][f]
          /\ is_prefix(tickets[i].chat_history, tickets'[i].chat_history)
          /\ Len(tickets'[i].chat_history) <= Len(tickets[i].chat_history) + 1
          /\ tickets'[i].chat_history # tickets[i].chat_history =>
               /\ tickets'[i].status = tickets[i].status
               /\ tickets'[i].assigned_to = tickets[i].assigned_to]_vars

(* a ticket with two chat entries has been assigned and then closed, next   *)
(* to a second ticket                                                       *)
C25_Witness ==
  /\ Len(tickets) = 2
  /\ Len(tickets[1].chat_history) = 2
  /\ tickets[1].assigned_to = Some(FirstStaffId + 1)
  /\ tickets[1].status = "CLOSED"

(* C26: handling a message of one user leaves the stored session of every   *)
(* other user as it was, in any interleaving of the users' messages.        *)
C26_OtherSessionsUntouched ==
  [][\A other \in Actors :
       other # last'.user_id => sessions'[other] = sessions[other]]_vars

(* UserB wrote last, while UserA waits in the middle of the form *)
C26_Witness ==
  /\ last.user_id = UserB
  /\ state_of(sessions, UserB) = "AI_CHAT"
  /\ state_of(sessions, UserA) = "CONSULT_FORM_GENDER"
  /\ form_of(sessions, UserA).topic = Some("topic")

FormOrder ==
  <<"CONSULT_FORM_TOPIC", "CONSULT_FORM_GENDER", "CONSULT_FORM_AGE",
    "CONSULT_FORM_SEVERITY", "CONSULT_FORM_MESSAGE", "MENU">>

FormFields == <<"topic", "gender", "age", "severity", "message">>

step_of(state) == CHOOSE k \in 1..Len(FormOrder) : FormOrder[k] = state

ordinary(U, user_id) == ~is_admin(U, user_id) /\ ~is_psychologist(U, user_id)

(* C27: when an ordinary user in a form state sends a message, the session  *)
(* stays in that state, moves to the next state of Topic, Gender, Age,      *)
(* Severity, Message, MENU, or (on /menu) goes to MENU; when it moves on,   *)
(* the answer is in the field of the step just answered (for the Message    *)
(* step: in the form, or in the ticket made from it) and the fields of the  *)
(* earlier steps are as they were.                                          *)
C27_FormOrder ==
  [][(/\ sessions' # sessions \/ last' # last
      /\ last'.user_id = UserA
      /\ ordinary(users, UserA)
      /\ state_of(sessions, UserA) \in {FormOrder[k] : k \in 1..5})
     => LET k == step_of(state_of(sessions, UserA))
            before == form_of(sessions, UserA)
            after == form_of(sessions', UserA)
            state_after == state_of(sessions', UserA)
            answer == last'.message
        IN /\ state_after \in {FormOrder[k], FormOrder[k + 1], "MENU"}
           /\ (state_after = "MENU" /\ k < 5) => strip_lower(answer) \in MenuWords
           /\ state_after = FormOrder[k] => after = before
           /\ (state_after = FormOrder[k + 1] /\ strip_lower(answer) \notin MenuWords) =>
                /\ CASE k = 1 -> after.topic = Some(answer)
                     [] k = 2 -> after.gender = Some(answer)
                     [] k = 3 -> after.age = to_int(answer)
                     [] k = 4 -> after.severity # None
                     [] k = 5 -> \/ after.message = Some(answer)
                                 \/ /\ Len(tickets') = Len(tickets) + 1
                                    /\ tickets'[Len(tickets')].message = answer
                /\ k < 5 => \A j \in 1..5 :
                     j # k => after[FormFields[j]] = before[FormFields[j]]]_vars

(* the age has just been accepted: topic, gender and age are filled, the    *)
(* two later fields are not                                                 *)
C27_Witness ==
  /\ last.message = "30"
  /\ ordinary(users, UserA)
  /\ state_of(sessions, UserA) = "CONSULT_FORM_SEVERITY"
  /\ form_of(sessions, UserA) =
       [topic |-> Some("topic"), gender |-> Some("gender"), age |-> Some(30),
        severity |-> None, message |-> None]

(* C28: in every form state, that is before the Message step of the         *)
(* traversal has been answered, the form is not complete.                   *)
C28_IncompleteBeforeMessage ==
  \A u \in Actors :
    (sessions[u] # None /\ state_of(sessions, u) \in {FormOrder[k] : k \in 1..5})
      => ~is_complete(form_of(sessions, u))

answered(state) ==
  /\ sessions' # sessions \/ last' # last
  /\ last'.user_id = UserA
  /\ state_of(sessions, UserA) = state
  /\ strip_lower(last'.message) \notin MenuWords

(* C29: an answer to the Age step (any text but the /menu command) is       *)
(* accepted exactly if it reads as an integer from 1 to 120; then the age   *)
(* is stored and the state is CONSULT_FORM_SEVERITY; otherwise the user is  *)
(* asked again and state and form stay as they were.                        *)
C29_AgeAcceptedIffInRange ==
  [][answered("CONSULT_FORM_AGE") =>
       LET number == to_int(last'.message)
           session == session_of(sessions, UserA)
       IN IF number # None /\ number[1] \in 1..120
          THEN /\ session_of(sessions', UserA) =
                    [session EXCEPT !.state = "CONSULT_FORM_SEVERITY",
                                    !.consultation_form.age = number]
               /\ last'.response = Reply("ASK_SEVERITY")
          ELSE /\ sessions' = sessions
               /\ last'.response.text \in {"AGE_NOT_A_NUMBER", "AGE_OUT_OF_RANGE"}]_vars

(* the upper limit 120 has been accepted *)
C29_Witness ==
  /\ last.message = "120"
  /\ state_of(sessions, UserA) = "CONSULT_FORM_SEVERITY"
  /\ form_of(sessions, UserA).age = Some(120)

SeverityNumerals == <<"1", "2", "3", "4">>

SeverityNames == <<"nizkaya", "srednyaya", "vysokaya", "kriticheskaya">>

SeverityLevels == <<"LOW", "MEDIUM", "HIGH", "CRITICAL">>

level_named(text) ==
  LET hits == {k \in 1..4 : text = SeverityNumerals[k] \/ text = SeverityNames[k]}
  IN IF hits = {} THEN None ELSE Some(SeverityLevels[CHOOSE k \in hits : TRUE])

(* C30: an answer to the Severity step (trimmed, in any case; any text but  *)
(* the /menu command) that is '1', '2', '3', '4' or a level name stores     *)
(* Low, Medium, High or Critical respectively and the state becomes         *)
(* CONSULT_FORM_MESSAGE; any other answer is asked for again and state and  *)
(* form stay as they were.                                                  *)
C30_SeverityMapping ==
  [][answered("CONSULT_FORM_SEVERITY") =>
       LET level == level_named(strip_lower(last'.message))
           session == session_of(sessions, UserA)
       IN IF level # None
          THEN /\ session_of(sessions', UserA) =
                    [session EXCEPT !.state = "CONSULT_FORM_MESSAGE",
                                    !.consultation_form.severity = level]
               /\ last'.response = Reply("ASK_MESSAGE")
          ELSE /\ sessions' = sessions
               /\ last'.response = Reply("SEVERITY_INVALID")]_vars

(* a level name typed in capitals has been taken as High *)
C30_Witness ==
  /\ last.message = "VYSOKAYA"
  /\ state_of(sessions, UserA) = "CONSULT_FORM_MESSAGE"
  /\ form_of(sessions, UserA).severity = Some("HIGH")

MenuNumerals == <<"1", "2", "3", "4">>

MenuNames ==
  <<"konsultaciya so specialistom", "konsultaciya s ii", "usloviya obrashcheniya",
    "vopros po psihologii">>

MenuTargets == <<"CONSULT_FORM_TOPIC", "AI_CHAT", "TERMS", "PSY_QUESTION">>

menu_target(text) ==
  LET hits == {k \in 1..4 : text = MenuNumerals[k] \/ text = MenuNames[k]}
  IN IF hits = {} THEN None ELSE Some(MenuTargets[CHOOSE k \in hits : TRUE])

(* C31: when an ordinary user in MENU sends 1, 2, 3, 4 or an option's name  *)
(* (trimmed, any case), the state becomes CONSULT_FORM_TOPIC, AI_CHAT,      *)
(* TERMS or PSY_QUESTION respectively and nothing else in the session       *)
(* changes; any other text but the /menu command, '/start' included, gets   *)
(* the menu again and leaves the whole session as it was.                   *)
C31_MenuSelections ==
  [][(answered("MENU") /\ ordinary(users, UserA)) =>
       LET target == menu_target(strip_lower(last'.message))
           session == load_session(world, UserA)
       IN IF target # None
          THEN session_of(sessions', UserA) = [session EXCEPT !.state = target[1]]
          ELSE /\ session_of(sessions', UserA) = session
               /\ last'.response.text \in {"MENU_TEXT", "WELCOME_AND_MENU_TEXT"}]_vars

(* the AI chat was opened by its name typed with capitals, by a user whose  *)
(* form still holds an earlier answer                                       *)
C31_Witness ==
  /\ last.message = "Konsultaciya s II"
  /\ ordinary(users, UserA)
  /\ state_of(sessions, UserA) = "AI_CHAT"
  /\ form_of(sessions, UserA).gender = Some("gender")

is_suffix(s, t) == Len(s) <= Len(t) /\ SubSeq(t, Len(t) - Len(s) + 1, Len(t)) = s

(* what a message that is not a clear command may do to the context: in     *)
(* AI_CHAT append a user and an assistant turn and drop the oldest entries, *)
(* elsewhere nothing                                                        *)
context_kept(state, before, after, message) ==
  IF state = "AI_CHAT" /\ strip_lower(message) \notin MenuWords
  THEN /\ Len(after) >= 2
       /\ is_suffix(SubSeq(after, 1, Len(after) - 2), before)
  ELSE after = before

(* C32 as stated: '/clear' received in AI_CHAT empties ai_context and keeps *)
(* the state; every other message in every state keeps the stored entries,  *)
(* apart from the appending and truncating of AI_CHAT messages.             *)
C32_OnlySlashClearEmpties ==
  [][(last'.user_id = UserA /\ (sessions' # sessions \/ last' # last)) =>
       LET state == state_of(sessions, UserA)
           before == load_session(world, UserA).ai_context
           after == context_of(sessions', UserA)
       IN IF state = "AI_CHAT" /\ strip_lower(last'.message) = "/clear"
          THEN after = <<>> /\ state_of(sessions', UserA) = "AI_CHAT"
          ELSE context_kept(state, before, after, last'.message)]_vars

(* C32, amended: '/clear' and 'clear' (trimmed, any case) received in       *)
(* AI_CHAT empty ai_context and keep the state; every other message in      *)
(* every state keeps the stored entries, apart from the appending and       *)
(* truncating of AI_CHAT messages.                                          *)
C32_OnlyClearCommandsEmpty ==
  [][(last'.user_id = UserA /\ (sessions' # sessions \/ last' # last)) =>
       LET state == state_of(sessions, UserA)
           before == load_session(world, UserA).ai_context
           after == context_of(sessions', UserA)
       IN IF state = "AI_CHAT" /\ strip_lower(last'.message) \in {"/clear", "clear"}
          THEN after = <<>> /\ state_of(sessions', UserA) = "AI_CHAT"
          ELSE context_kept(state, before, after, last'.message)]_vars

(* the context has been emptied in AI_CHAT, and a '/clear' sent at the      *)
(* Topic step has left a later context in place                             *)
C32_Witness ==
  /\ last.message = "/clear"
  /\ state_of(sessions, UserA) = "CONSULT_FORM_GENDER"
  /\ Len(context_of(sessions, UserA)) = 2

(* the list a rendered page was made from *)
paged_list(kind) ==
  IF kind = "tickets"
  THEN [i \in 1..Len(get_sorted_tickets_for_assignment(tickets)) |->
          get_sorted_tickets_for_assignment(tickets)[i].id]
  ELSE [i \in 1..Len(get_psychologists_by_workload(users, tickets)) |->
          get_psychologists_by_workload(users, tickets)[i].user_id]

(* C33: a picker page shows page number offset/10+1 and total pages         *)
(* ceil(total/10), the entries at indexes offset..offset+9 that exist,      *)
(* numbered from 1, and the prev word iff offset > 0; for an empty list the *)
(* page number and the total pages are consistent (the page shown is one of *)
(* the pages counted).                                                      *)
C33_PagesRendered ==
  last.message = "render" =>
    LET page == last.response.page
        offset == offset_of(sessions, AdminId)
        list == paged_list(page.kind)
        total == Len(list)
        shown == Cardinality({k \in 1..10 : offset + k <= total})
    IN /\ page.page_num * 10 > offset /\ (page.page_num - 1) * 10 <= offset
       /\ page.max_pages * 10 >= total /\ (page.max_pages - 1) * 10 < total
       /\ page.items = [i \in 1..shown |-> list[offset + i]]
       /\ page.prev_hint <=> offset > 0
       /\ total = 0 => page.page_num <= page.max_pages

(* C33 without its last clause: header, body and hint of every rendered     *)
(* page of a non-empty or empty list                                        *)
C33_HeaderBodyHint ==
  last.message = "render" =>
    LET page == last.response.page
        offset == offset_of(sessions, AdminId)
        list == paged_list(page.kind)
        total == Len(list)
        shown == Cardinality({k \in 1..10 : offset + k <= total})
    IN /\ page.page_num * 10 > offset /\ (page.page_num - 1) * 10 <= offset
       /\ page.max_pages * 10 >= total /\ (page.max_pages - 1) * 10 < total
       /\ page.items = [i \in 1..shown |-> list[offset + i]]
       /\ page.prev_hint <=> offset > 0

(* C34: whenever the reply to the final form step holds the 'ticket         *)
(* created' confirmation, that message has added a ticket of the sender to  *)
(* the ticket store, whatever its text and the texts of the earlier steps.  *)
C34_ConfirmationMeansTicket ==
  [][(answered("CONSULT_FORM_MESSAGE")
      /\ last'.response.text = "TICKET_CREATED_AND_MENU_TEXT") =>
       /\ Len(tickets') = Len(tickets) + 1
       /\ SubSeq(tickets', 1, Len(tickets)) = tickets
       /\ tickets'[Len(tickets')].user_id = UserA]_vars

(* C35: the ticket an admin chooses by numeral n is the one shown as entry  *)
(* n on the ticket page most recently rendered to that admin, also when     *)
(* other operators assigned tickets between the render and the choice.      *)
C35_ChosenIsShown ==
  [][(/\ last'.user_id = AdminId
      /\ last.user_id = AdminId
      /\ last.response.page.kind = "tickets"
      /\ state_of(sessions, AdminId) = "ADMIN_ASSIGN_TICKET_SELECT"
      /\ state_of(sessions', AdminId) = "ADMIN_ASSIGN_PSYCHO_SELECT") =>
       LET n == to_int(last'.message)[1]
           shown == last.response.page.items
       IN /\ n <= Len(shown)
          /\ selected_of(sessions', AdminId) = Some(shown[n])]_vars

(* C36: when the psychologist picker assigns the selected ticket, that      *)
(* ticket has status NEW or WAITING_RESPONSE: a ticket that is IN_PROGRESS  *)
(* or CLOSED is never assigned again by the picker.                         *)
C36_PickerAssignsBacklogOnly ==
  [][(/\ last'.user_id = AdminId
      /\ sessions' # sessions \/ last' # last
      /\ state_of(sessions, AdminId) = "ADMIN_ASSIGN_PSYCHO_SELECT"
      /\ last'.response.text = "TICKET_ASSIGNED") =>
       LET ticket == ticket_get(tickets, selected_of(sessions, AdminId)[1]) IN
       ticket[1].status \in {"NEW", "WAITING_RESPONSE"}]_vars

(* C37: in every saved admin session, selected_ticket_id is set exactly if  *)
(* the state is ADMIN_ASSIGN_PSYCHO_SELECT.                                 *)
C37_SelectedIffPsychoSelect ==
  sessions[AdminId] # None =>
    (selected_of(sessions, AdminId) # None
       <=> state_of(sessions, AdminId) = "ADMIN_ASSIGN_PSYCHO_SELECT")

(* C38: every ticket page or psychologist page rendered in the assignment   *)
(* workflow shows a page number not greater than its total page count and   *)
(* at least one entry.                                                      *)
C38_RenderedPageNotEmpty ==
  (last.user_id = AdminId /\ last.response.page.kind \in {"tickets", "psychologists"}) =>
     /\ last.response.page.page_num <= last.response.page.max_pages
     /\ last.response.page.items # <<>>

(* the states of the intake form, the AI chat, the terms and the psychology *)
(* question                                                                 *)
UserStates ==
  {FormOrder[k] : k \in 1..5} \cup {"AI_CHAT", "TERMS", "PSY_QUESTION"}

C40_ContextAlternates ==
  \A u \in Actors :
    LET ctx == context_of(sessions, u) IN
    /\ Len(ctx) % 2 = 0
    /\ \A i \in 1..Len(ctx) :
         ctx[i].role = IF i % 2 = 1 THEN "user" ELSE "assistant"

(* a context that was left longer than 20 entries by a raised call has been *)
(* cut to its last 20 entries by the next successful call                   *)
C40_Witness ==
  LET ctx == context_of(sessions, UserA) IN
  /\ last.ai = "reply"
  /\ state_of(sessions, UserA) = "AI_CHAT"
  /\ Len(ctx) = 20
  /\ ctx[18] = Turn("assistant", "FALLBACK")
  /\ ctx[17] = Turn("user", "x")
  /\ ctx[15] = Turn("user", "x")
  /\ ctx[1] = Turn("user", "earlier")

====
